---- MODULE Spec2Model ----
(***************************************************************************)
(* ClawGuard client core: the before_tool_call enforcer                    *)
(* (policy/tool-enforcer.ts), the AuditLogger (audit/audit-logger.ts), the *)
(* policy cache (policy/org-policy-cache.ts), the KillSwitchManager        *)
(* (heartbeat/kill-switch.ts) and the policy resolution of                 *)
(* initializeClawGuard (index.ts).                                         *)
(*                                                                         *)
(* Optional values (T | undefined, T | null) are sequences of length at    *)
(* most one: None is <<>>, Some(x) is <<x>>.  Optional strings use the     *)
(* marker Undefined.                                                       *)
(***************************************************************************)
EXTENDS Integers, Sequences, FiniteSets, TLC

VARIABLES
    enforcerState,    \* ToolEnforcerState {policy, killSwitchActive, killSwitchMessage}
    hookCall,         \* the before_tool_call invocations made so far: <<>> or <<[toolName, result, enqueued]>>
    auditLevel,       \* AuditLogger.auditLevel
    controlPlaneUrl,  \* AuditLogger.controlPlaneUrl ("" when not configured)
    batchSize,        \* AuditLogger.batchSize
    flushTimer,       \* AuditLogger.flushTimer is set
    buffer,           \* AuditLogger.buffer
    inflight,         \* the flush() calls suspended at `await fetch`: [batch, body of the POST]
    file,             \* lines of BUFFER_FILE (<<>> when the file does not exist)
    delivered,        \* control plane: JSON events of the POSTs answered 2xx
    enqLog,           \* history: per event id, the level and metadata of its enqueue call
    fileAtCtor,       \* history: BUFFER_FILE as the AuditLogger's constructor found it
    flushed,          \* history: flush() has been called since construction
    flushIntervals,   \* history: setInterval registrations of the AuditLogger not yet cleared
    stopCall,         \* history: the last stop() of the AuditLogger, <<>> before the first
    cacheFile,        \* CACHE_FILE (org-policy.json)
    now,              \* Date.now()
    cacheOp,          \* history: the last call of the policy cache and what it returned
    saved,            \* history: the last saveCachedPolicy whose text CACHE_FILE still holds
    timer,            \* KillSwitchManager.timer is set
    heartbeatIntervals, \* history: setInterval registrations of the KillSwitchManager not yet cleared
    consecutiveFailures, \* KillSwitchManager.consecutiveFailures
    failureThreshold, \* KillSwitchManager.failureThreshold
    heartbeats,       \* number of heartbeat() calls suspended at `await fetch`
    refreshCalls,     \* history: calls of onPolicyRefreshNeeded
    lastBeat,         \* history: the last heartbeat() that resumed, <<>> before the first
    skipped,          \* history: heartbeat() calls that returned at the controlPlaneUrl check
    startup,          \* initializeClawGuard: its position and what it has done
    session,          \* initializeClawGuard: its local `session`, <<>> for null
    sessionFile,      \* SESSION_FILE: the tokens stored, <<>> when loadSession returns null
    hooks,            \* the hook names registered with api.on
    llmCall,          \* the LLM event the host has dispatched: <<>> or <<[hook, level]>>
    serverUp,         \* the control plane answers requests
    policies,         \* control plane: the row of the policies table for the organisation
    mutations,        \* control plane: upsertOrgPolicy / setKillSwitch calls suspended at an await
    versionLog,       \* history: the versions the mutations have written, in order
    fetches,          \* fetchEffectivePolicy calls of the client suspended at `await fetch`
    pings             \* the heartbeat requests issued: [id, reply, done], while they are tracked

loggerVars == <<auditLevel, controlPlaneUrl, batchSize, flushTimer, buffer, inflight, file,
                delivered, enqLog, fileAtCtor, flushed, flushIntervals, stopCall>>
cacheVars == <<cacheFile, now, cacheOp, saved>>
heartbeatVars == <<timer, heartbeatIntervals, consecutiveFailures, failureThreshold,
                   heartbeats, refreshCalls, lastBeat, skipped>>
startupVars == <<startup>>
sessionVars == <<session, sessionFile, hooks, llmCall>>
planeVars == <<serverUp, policies, mutations, versionLog, fetches, pings>>

vars == <<enforcerState, hookCall, loggerVars, cacheVars, heartbeatVars, startupVars,
          sessionVars, planeVars>>

(***************************************************************************)
(* Bounds of the model.                                                    *)
(***************************************************************************)
MaxListLen == 2      \* longest allow / deny list of a policy
MaxEvents == 3       \* events a behaviour handles: reloaded from the file or enqueued
MaxBatchSize == 2    \* largest configured auditBatchSize
MaxTtl == 2          \* largest TTL passed to the policy cache
MaxClock == 3        \* latest value of the clock
MaxThreshold == 2    \* largest configured heartbeatFailureThreshold
MaxInFlight == 2     \* most heartbeat requests in flight together
MaxRefreshCalls == 2 \* most calls of the refresh callback in a behaviour
MaxMutations == 2    \* most policy mutations of the control plane in a behaviour
MaxTicks == 2        \* most heartbeat timer ticks counted without a control plane URL
MaxPings == 2        \* most heartbeat requests tracked from issue to response

None == <<>>
Some(x) == <<x>>
Undefined == "<undefined>"

RECURSIVE SeqsUpTo(_, _)
SeqsUpTo(S, n) ==
    IF n = 0 THEN {<<>>}
    ELSE LET shorter == SeqsUpTo(S, n - 1)
         IN  shorter \cup {Append(s, x) : s \in {t \in shorter : Len(t) = n - 1}, x \in S}

Range(s) == {s[i] : i \in 1..Len(s)}

IsPrefix(p, s) == Len(p) <= Len(s) /\ SubSeq(s, 1, Len(p)) = p

(***************************************************************************)
(* policy/tool-enforcer.ts                                                 *)
(***************************************************************************)

\* Tool names as the host passes them, and entries as a policy lists them.
RawToolNames == {"exec", "bash", " Bash ", "read", "apply-patch", "process"}
ListEntries == {"exec", "Bash", "group:fs"}

\* String.prototype.trim and toLowerCase on the strings of the model.
trim(s) ==
    CASE s = " Bash " -> "Bash"
      [] s = " Apply-Patch " -> "Apply-Patch"
      [] OTHER -> s
toLowerCase(s) ==
    CASE s \in {"Bash", "BASH"} -> "bash"
      [] s \in {"Apply-Patch", "APPLY-PATCH"} -> "apply-patch"
      [] s = "EXEC" -> "exec"
      [] OTHER -> s

TOOL_NAME_ALIASES ==
    [a \in {"bash", "apply-patch"} |-> IF a = "bash" THEN "exec" ELSE "apply_patch"]

normalizeToolName_NoAliases(name) == toLowerCase(trim(name))

normalizeToolName(name) ==
    LET normalized == toLowerCase(trim(name))
    IN  IF normalized \in DOMAIN TOOL_NAME_ALIASES
        THEN TOOL_NAME_ALIASES[normalized]
        ELSE normalized

TOOL_GROUPS ==
    [g \in {"group:memory", "group:web", "group:fs", "group:runtime", "group:sessions",
            "group:ui", "group:automation", "group:messaging", "group:nodes"} |->
        CASE g = "group:memory" -> <<"memory_search", "memory_get">>
          [] g = "group:web" -> <<"web_search", "web_fetch">>
          [] g = "group:fs" -> <<"read", "write", "edit", "apply_patch">>
          [] g = "group:runtime" -> <<"exec", "process">>
          [] g = "group:sessions" -> <<"sessions_list", "sessions_history", "sessions_send",
                                       "sessions_spawn", "subagents", "session_status">>
          [] g = "group:ui" -> <<"browser", "canvas">>
          [] g = "group:automation" -> <<"cron", "gateway">>
          [] g = "group:messaging" -> <<"message">>
          [] g = "group:nodes" -> <<"nodes">>]

expandGroups_NoExpansion(list) == {normalizeToolName(list[i]) : i \in 1..Len(list)}

expandGroups_EntryAsWritten(list) ==
    UNION {IF normalizeToolName(list[i]) \in DOMAIN TOOL_GROUPS
           THEN Range(TOOL_GROUPS[normalizeToolName(list[i])])
           ELSE {list[i]} : i \in 1..Len(list)}

RECURSIVE expandGroups(_)
expandGroups(list) ==
    IF list = <<>> THEN {}
    ELSE LET normalized == normalizeToolName(Head(list))
         IN  (IF normalized \in DOMAIN TOOL_GROUPS
              THEN Range(TOOL_GROUPS[normalized])
              ELSE {normalized}) \cup expandGroups(Tail(list))

DefaultKillSwitchReason == "ClawGuard: All tool calls blocked by organization kill switch"

Block(text, tool) == Some([block |-> TRUE, blockReason |-> [text |-> text, tool |-> tool]])

AttemptParams(toolName, outcome, metadata) ==
    [eventType |-> "tool_call_attempt", toolName |-> toolName,
     outcome |-> outcome, metadata |-> metadata]

\* One decision of the handler: what it returns and the enqueue calls it makes.
Decision(result, toolName, outcome, metadata) ==
    [result |-> result, enqueued |-> <<AttemptParams(toolName, outcome, metadata)>>]

\* 1. Kill switch check.
killSwitchDecision(state, toolName) ==
    Decision(Block(IF state.killSwitchMessage = Undefined
                   THEN DefaultKillSwitchReason
                   ELSE state.killSwitchMessage, ""),
             toolName, "blocked", "kill_switch")

\* No policy loaded - allow by default.
noPolicyDecision_FailClosed(toolName) ==
    Decision(Block("no policy", ""), toolName, "blocked", "no_policy")

noPolicyDecision(toolName) ==
    Decision(None, toolName, "allowed", "no_policy")

\* 2. Deny list check.
inDenyList(tools, toolName) ==
    /\ tools.deny # None
    /\ Len(Head(tools.deny)) > 0
    /\ toolName \in expandGroups(Head(tools.deny))

\* 3. Allow list check.
notInAllowList_EmptyListBlocks(tools, toolName) ==
    /\ tools.allow # None
    /\ toolName \notin expandGroups(Head(tools.allow))

notInAllowList(tools, toolName) ==
    /\ tools.allow # None
    /\ Len(Head(tools.allow)) > 0
    /\ toolName \notin expandGroups(Head(tools.allow))

denyDecision(rawName, toolName) ==
    Decision(Block("is blocked by organization policy", rawName),
             toolName, "blocked", "deny_list")

allowListDecision(rawName, toolName) ==
    Decision(Block("is not in the organization's allowed tools list", rawName),
             toolName, "blocked", "not_in_allowlist")

\* 4. Allowed.
allowedDecision(toolName) ==
    Decision(None, toolName, "allowed", Undefined)

toolEnforcerHook_PolicyFirst(state, rawName) ==
    LET toolName == normalizeToolName(rawName)
        tools == Head(state.policy).tools
    IN  IF state.policy = None THEN noPolicyDecision(toolName)
        ELSE IF inDenyList(tools, toolName) THEN denyDecision(rawName, toolName)
        ELSE IF notInAllowList(tools, toolName) THEN allowListDecision(rawName, toolName)
        ELSE IF state.killSwitchActive THEN killSwitchDecision(state, toolName)
        ELSE allowedDecision(toolName)

toolEnforcerHook_AllowFirst(state, rawName) ==
    LET toolName == normalizeToolName(rawName)
        tools == Head(state.policy).tools
    IN  IF state.killSwitchActive THEN killSwitchDecision(state, toolName)
        ELSE IF state.policy = None THEN noPolicyDecision(toolName)
        ELSE IF notInAllowList(tools, toolName) THEN allowListDecision(rawName, toolName)
        ELSE IF tools.allow # None /\ Len(Head(tools.allow)) > 0 THEN allowedDecision(toolName)
        ELSE IF inDenyList(tools, toolName) THEN denyDecision(rawName, toolName)
        ELSE allowedDecision(toolName)

\* The handler createToolEnforcerHook returns.
toolEnforcerHook(state, rawName) ==
    LET toolName == normalizeToolName(rawName)
        tools == Head(state.policy).tools
    IN  IF state.killSwitchActive THEN killSwitchDecision(state, toolName)
        ELSE IF state.policy = None THEN noPolicyDecision(toolName)
        ELSE IF inDenyList(tools, toolName) THEN denyDecision(rawName, toolName)
        ELSE IF notInAllowList(tools, toolName) THEN allowListDecision(rawName, toolName)
        ELSE allowedDecision(toolName)

(***************************************************************************)
(* policy/org-policy-cache.ts                                              *)
(***************************************************************************)

DEFAULT_TTL_MS == 3600000

\* The policies the control plane serves in the model.
SamplePolicy(version, allow, deny, active, message, level) ==
    [version |-> version,
     tools |-> [allow |-> allow, deny |-> deny],
     killSwitch |-> [active |-> active, message |-> message],
     auditLevel |-> level]

ServedPolicies ==
    {SamplePolicy(3, Some(<<"read", "write">>), Some(<<"exec">>), FALSE, Undefined, "metadata"),
     SamplePolicy(4, None, Some(<<"group:fs">>), TRUE, "Emergency shutdown", "full")}

\* JSON.stringify of a policy: a key whose value is undefined is left out.
JSONStringifyPolicy(p) ==
    [version |-> p.version,
     toolKeys |-> {k \in {"allow", "deny"} : p.tools[k] # None},
     allow |-> IF p.tools.allow = None THEN <<>> ELSE Head(p.tools.allow),
     deny |-> IF p.tools.deny = None THEN <<>> ELSE Head(p.tools.deny),
     active |-> p.killSwitch.active,
     killSwitchKeys |-> {k \in {"message"} : p.killSwitch[k] # Undefined},
     message |-> IF p.killSwitch.message = Undefined THEN "" ELSE p.killSwitch.message,
     auditLevel |-> p.auditLevel]

\* JSON.parse of that text: a key the text lacks reads as undefined.
JSONParsePolicy(j) ==
    [version |-> j.version,
     tools |-> [allow |-> IF "allow" \in j.toolKeys THEN Some(j.allow) ELSE None,
                deny |-> IF "deny" \in j.toolKeys THEN Some(j.deny) ELSE None],
     killSwitch |-> [active |-> j.active,
                     message |-> IF "message" \in j.killSwitchKeys
                                 THEN j.message ELSE Undefined],
     auditLevel |-> j.auditLevel]

\* CACHE_FILE: kind is "missing" (no file), "unreadable" (readFileSync throws),
\* "garbage" (JSON.parse throws), "object" (JSON without the CachedPolicy fields)
\* or "cached" (the text saveCachedPolicy writes).
CacheText(kind, policy, fetchedAt, ttlMs) ==
    [kind |-> kind, policy |-> policy, fetchedAt |-> fetchedAt, ttlMs |-> ttlMs]
DamagedFile(kind) == CacheText(kind, <<>>, 0, 0)
MissingFile == DamagedFile("missing")
DamagedFiles == {DamagedFile(k) : k \in {"missing", "unreadable", "garbage", "object"}}

loadCachedPolicy_ExpiresAtTtl(f, ttlMs, t) ==
    IF f.kind \in {"missing", "unreadable", "garbage", "object"} THEN None
    ELSE LET ttl == IF ttlMs # None THEN Head(ttlMs) ELSE f.ttlMs
         IN  IF t - f.fetchedAt >= ttl THEN None ELSE Some(JSONParsePolicy(Head(f.policy)))

\* loadCachedPolicy(ttlMs) at time t.  A file that cannot be read or parsed ends in
\* the catch; for "object" the expiry test is false (NaN) and cached.policy is undefined.
loadCachedPolicy(f, ttlMs, t) ==
    IF f.kind \in {"missing", "unreadable", "garbage", "object"} THEN None
    ELSE LET ttl == IF ttlMs # None THEN Head(ttlMs) ELSE f.ttlMs
         IN  IF t - f.fetchedAt > ttl THEN None ELSE Some(JSONParsePolicy(Head(f.policy)))

loadCachedPolicyFallback(f) ==
    IF f.kind \in {"missing", "unreadable", "garbage", "object"} THEN None
    ELSE Some(JSONParsePolicy(Head(f.policy)))

\* The text saveCachedPolicy(policy, ttlMs) writes at time t.
CachedPolicy(policy, ttlMs, t) ==
    CacheText("cached", Some(JSONStringifyPolicy(policy)), t,
              IF ttlMs # None THEN Head(ttlMs) ELSE DEFAULT_TTL_MS)

\* What a call of saveCachedPolicy can leave in CACHE_FILE: mkdirSync throws and the
\* file is untouched; writeFileSync throws before or after it truncated the file.
SaveFaults == {"none", "mkdir", "write"}
saveOutcomes(f, policy, ttlMs, t, fault) ==
    CASE fault = "none" -> {CachedPolicy(policy, ttlMs, t)}
      [] fault = "mkdir" -> {f}
      [] fault = "write" -> {f, DamagedFile("garbage")}

\* saveCachedPolicy has no try/catch: the exception of mkdirSync or writeFileSync
\* reaches the caller.
saveThrows(fault) == fault # "none"

TtlArgs == {None} \cup {Some(t) : t \in 1..MaxTtl}

CacheCall(op, ttlMs, threw, result) ==
    [op |-> op, ttlMs |-> ttlMs, at |-> now, threw |-> threw, result |-> result]

SaveCachedPolicy ==
    /\ \E policy \in ServedPolicies, ttlMs \in TtlArgs, fault \in SaveFaults :
          /\ cacheFile' \in saveOutcomes(cacheFile, policy, ttlMs, now, fault)
          /\ cacheOp' = CacheCall("save", ttlMs, saveThrows(fault), None)
          /\ saved' = IF fault = "none"
                      THEN Some([policy |-> policy, ttlMs |-> ttlMs, fetchedAt |-> now])
                      ELSE IF cacheFile' = cacheFile THEN saved ELSE None
    /\ UNCHANGED <<now, enforcerState, hookCall, loggerVars, heartbeatVars, startupVars,
                   sessionVars, planeVars>>

LoadCachedPolicy ==
    /\ \E ttlMs \in TtlArgs :
          cacheOp' = CacheCall("load", ttlMs, FALSE, loadCachedPolicy(cacheFile, ttlMs, now))
    /\ UNCHANGED <<cacheFile, now, saved, enforcerState, hookCall, loggerVars,
                   heartbeatVars, startupVars, sessionVars, planeVars>>

LoadCachedPolicyFallback ==
    /\ cacheOp' = CacheCall("loadFallback", None, FALSE, loadCachedPolicyFallback(cacheFile))
    /\ UNCHANGED <<cacheFile, now, saved, enforcerState, hookCall, loggerVars,
                   heartbeatVars, startupVars, sessionVars, planeVars>>

\* Time passes.
Tick ==
    /\ now < MaxClock
    /\ now' = now + 1
    /\ UNCHANGED <<cacheFile, cacheOp, saved, enforcerState, hookCall, loggerVars,
                   heartbeatVars, startupVars, sessionVars, planeVars>>

\* The file is removed, made unreadable or overwritten from outside the process.
StorageFault ==
    /\ cacheFile' \in DamagedFiles \ {cacheFile}
    /\ saved' = None
    /\ UNCHANGED <<now, cacheOp, enforcerState, hookCall, loggerVars, heartbeatVars,
                   startupVars, sessionVars, planeVars>>

NoCall == [op |-> "none", ttlMs |-> None, at |-> 0, threw |-> FALSE, result |-> None]

NoCache ==
    /\ cacheFile = MissingFile
    /\ now = 0
    /\ cacheOp = NoCall
    /\ saved = None

(***************************************************************************)
(* heartbeat/kill-switch.ts                                                *)
(***************************************************************************)

\* HeartbeatResponse bodies of the control plane.
HeartbeatResponses ==
    {[killSwitch |-> k, killSwitchMessage |-> m, refreshPolicyNow |-> r] :
        k \in BOOLEAN, m \in {Undefined, "Shutdown now"}, r \in BOOLEAN}

NoResponse == [killSwitch |-> FALSE, killSwitchMessage |-> Undefined, refreshPolicyNow |-> FALSE]

Beat(ok, response) == Some([ok |-> ok, response |-> response])

killSwitchStart_AlwaysSchedules ==
    /\ timer' = TRUE
    /\ heartbeatIntervals' = heartbeatIntervals + 1

\* start(): returns when the timer is set, else setInterval.
killSwitchStart ==
    IF timer
    THEN UNCHANGED <<timer, heartbeatIntervals>>
    ELSE /\ timer' = TRUE
         /\ heartbeatIntervals' = heartbeatIntervals + 1

\* stop(): clearInterval when the timer is set.
killSwitchStop ==
    IF timer
    THEN /\ timer' = FALSE
         /\ heartbeatIntervals' = heartbeatIntervals - 1
    ELSE UNCHANGED <<timer, heartbeatIntervals>>

KillSwitchStart ==
    /\ killSwitchStart
    /\ UNCHANGED <<consecutiveFailures, failureThreshold, heartbeats, refreshCalls, lastBeat,
                   skipped>>
    /\ UNCHANGED <<enforcerState, hookCall, loggerVars, cacheVars, startupVars, sessionVars,
                   planeVars>>

KillSwitchStop ==
    /\ killSwitchStop
    /\ UNCHANGED <<consecutiveFailures, failureThreshold, heartbeats, refreshCalls, lastBeat,
                   skipped>>
    /\ UNCHANGED <<enforcerState, hookCall, loggerVars, cacheVars, startupVars, sessionVars,
                   planeVars>>

heartbeatIssued_IgnoresUrl == TRUE

\* heartbeat(): `if (!this.controlPlaneUrl) return;` comes before the fetch.
heartbeatIssued == controlPlaneUrl # ""

\* The setInterval callback: heartbeat() up to `await fetch`, or to its return when
\* no control plane URL is configured.
HeartbeatTick ==
    /\ heartbeatIntervals > 0
    /\ IF heartbeatIssued
       THEN /\ heartbeats < MaxInFlight
            /\ heartbeats' = heartbeats + 1
            /\ UNCHANGED skipped
       ELSE /\ skipped < MaxTicks
            /\ skipped' = skipped + 1
            /\ UNCHANGED heartbeats
    /\ UNCHANGED <<timer, heartbeatIntervals, consecutiveFailures, failureThreshold,
                   refreshCalls, lastBeat>>
    /\ UNCHANGED <<enforcerState, hookCall, loggerVars, cacheVars, startupVars, sessionVars,
                   planeVars>>

onSuccess_KeepsStaleMessage(state, data) ==
    [state EXCEPT !.killSwitchActive = data.killSwitch,
                  !.killSwitchMessage = IF data.killSwitch
                                        THEN data.killSwitchMessage
                                        ELSE state.killSwitchMessage]

\* Update kill switch state.
onSuccess(state, data) ==
    [state EXCEPT !.killSwitchActive = data.killSwitch,
                  !.killSwitchMessage = IF data.killSwitch
                                        THEN data.killSwitchMessage
                                        ELSE Undefined]

refreshNeeded_OnEverySuccess(data) == TRUE

\* Check if policy needs refresh.
refreshNeeded(data) == data.refreshPolicyNow

\* heartbeat() resumed with response.ok and the body data.
heartbeatResumed(data) ==
    /\ heartbeats > 0
    /\ refreshNeeded(data) => refreshCalls < MaxRefreshCalls
    /\ enforcerState' = onSuccess(enforcerState, data)
    /\ refreshCalls' = IF refreshNeeded(data) THEN refreshCalls + 1 ELSE refreshCalls
    /\ lastBeat' = Beat(TRUE, data)
    /\ UNCHANGED skipped
    /\ heartbeats' = heartbeats - 1
    /\ consecutiveFailures' = 0
    /\ UNCHANGED <<timer, heartbeatIntervals, failureThreshold>>
    /\ UNCHANGED <<hookCall, cacheVars, startupVars, sessionVars>>
    /\ UNCHANGED <<serverUp, policies, mutations, versionLog>>

\* heartbeat() resumed with response.ok and a body that parses; the callback
\* onPolicyRefreshNeeded is the manager's own, it starts no fetch.
HeartbeatOk ==
    /\ \E data \in HeartbeatResponses : heartbeatResumed(data)
    /\ UNCHANGED <<loggerVars, fetches, pings>>

handleFailure_ActivatesAtThreshold(failures, state) ==
    [failures |-> failures + 1,
     state |-> IF failures + 1 >= failureThreshold
               THEN [state EXCEPT !.killSwitchActive = TRUE]
               ELSE state]

\* handleFailure: count and log; at the threshold it logs "Entering degraded mode".
handleFailure(failures, state) ==
    [failures |-> failures + 1, state |-> state]

\* heartbeat() resumed with a non-2xx response, a rejected fetch or a body that
\* does not parse.
HeartbeatFailed ==
    /\ heartbeats > 0
    /\ consecutiveFailures <= MaxThreshold
    /\ LET after == handleFailure(consecutiveFailures, enforcerState)
       IN  /\ consecutiveFailures' = after.failures
           /\ enforcerState' = after.state
    /\ heartbeats' = heartbeats - 1
    /\ lastBeat' = Beat(FALSE, NoResponse)
    /\ UNCHANGED skipped
    /\ UNCHANGED <<timer, heartbeatIntervals, failureThreshold, refreshCalls>>
    /\ UNCHANGED <<hookCall, loggerVars, cacheVars, startupVars, sessionVars, planeVars>>

NoHeartbeat ==
    /\ timer = FALSE
    /\ heartbeatIntervals = 0
    /\ consecutiveFailures = 0
    /\ failureThreshold = 1
    /\ heartbeats = 0
    /\ refreshCalls = 0
    /\ lastBeat = None
    /\ skipped = 0

\* startup.pc: "idle" while initializeClawGuard has not run, "resolve" before
\* loadCachedPolicy, "fetching" at `await fetchEffectivePolicy`, "ready" once
\* enforcerState is built.
Startup(pc, cacheTtl, fileAtStart, fetch, fetched, fallbackConsulted, installed, background) ==
    [pc |-> pc, cacheTtl |-> cacheTtl, fileAtStart |-> fileAtStart, fetch |-> fetch,
     fetched |-> fetched, fallbackConsulted |-> fallbackConsulted,
     installed |-> installed, background |-> background]

NoStartup ==
    startup = Startup("idle", None, MissingFile, "none", None, FALSE, None, FALSE)

\* SessionTokens as isSessionValid and the refresh read them.
SessionTokens(accessToken, expired, refreshToken) ==
    [accessToken |-> accessToken, expired |-> expired, refreshToken |-> refreshToken]

NoSession ==
    /\ session = None
    /\ sessionFile = None
    /\ hooks = {}
    /\ llmCall = None

NoPlane ==
    /\ serverUp = TRUE
    /\ policies = None
    /\ mutations = <<>>
    /\ versionLog = <<>>
    /\ fetches = {}
    /\ pings = {}

(***************************************************************************)
(* audit/audit-logger.ts                                                   *)
(***************************************************************************)

AuditLevels == {"full", "metadata", "off"}
ControlPlane == "https://clawguard.example.com"

MakeEvent_KeepsMetadata(id, params, level) ==
    [id |-> id,
     eventType |-> params.eventType,
     toolName |-> params.toolName,
     outcome |-> params.outcome,
     metadata |-> params.metadata]

\* The AuditEvent enqueue builds; id stands for the object and its timestamp.
MakeEvent(id, params, level) ==
    [id |-> id,
     eventType |-> params.eventType,
     toolName |-> params.toolName,
     outcome |-> params.outcome,
     metadata |-> IF level = "full" THEN params.metadata ELSE Undefined]

\* JSON.stringify of an event: a key whose value is undefined is left out.
JSONStringify(e) ==
    [kind |-> "json",
     id |-> e.id,
     eventType |-> e.eventType,
     outcome |-> e.outcome,
     keys |-> {k \in {"toolName", "metadata"} : e[k] # Undefined},
     toolName |-> IF e.toolName = Undefined THEN "" ELSE e.toolName,
     metadata |-> IF e.metadata = Undefined THEN "" ELSE e.metadata]

\* JSON.parse of a line: a key the text lacks reads as undefined; other text throws.
JSONParses(line) == line.kind = "json"
JSONParse(line) ==
    [id |-> line.id,
     eventType |-> line.eventType,
     toolName |-> IF "toolName" \in line.keys THEN line.toolName ELSE Undefined,
     outcome |-> line.outcome,
     metadata |-> IF "metadata" \in line.keys THEN line.metadata ELSE Undefined]

TextLine(kind) ==
    [kind |-> kind, id |-> 0, eventType |-> "", outcome |-> "", keys |-> {},
     toolName |-> "", metadata |-> ""]
Malformed == TextLine("garbage")
Blank == TextLine("blank")

Body_StripAtShip(batch) ==
    [i \in 1..Len(batch) |->
        JSONStringify(IF auditLevel = "full"
                      THEN batch[i]
                      ELSE [batch[i] EXCEPT !.metadata = Undefined])]

\* body: JSON.stringify({ events: batch })
Body(batch) == [i \in 1..Len(batch) |-> JSONStringify(batch[i])]

\* persistBuffer: the file is rewritten with one JSON line per event.
persistBuffer(events) == [i \in 1..Len(events) |-> JSONStringify(events[i])]

\* clearPersistedBuffer: unlink.
clearPersistedBuffer == <<>>

\* loadPersistedBuffer: the buffer after reading the lines of the file.
RECURSIVE loadLines(_, _)
loadLines(lines, buf) ==
    IF lines = <<>> THEN buf
    ELSE loadLines(Tail(lines),
                   IF JSONParses(Head(lines)) THEN Append(buf, JSONParse(Head(lines))) ELSE buf)

RECURSIVE loadLinesUntilMalformed(_, _)
loadLinesUntilMalformed(lines, buf) ==
    IF lines = <<>> \/ ~JSONParses(Head(lines)) THEN buf
    ELSE loadLinesUntilMalformed(Tail(lines), Append(buf, JSONParse(Head(lines))))

loadPersistedBuffer_AbortsOnMalformed(f) ==
    loadLinesUntilMalformed(SelectSeq(f, LAMBDA l : l.kind # "blank"), <<>>)

loadPersistedBuffer(f) ==
    loadLines(SelectSeq(f, LAMBDA l : l.kind # "blank"), <<>>)

Ids(events) == {events[i].id : i \in 1..Len(events)}

flush_SharesBuffer(buf) ==
    /\ flushed' = TRUE
    /\ buffer' = buf
    /\ IF Len(buf) = 0
       THEN UNCHANGED <<inflight, file>>
       ELSE IF controlPlaneUrl = ""
       THEN /\ file' = persistBuffer(buf)
            /\ UNCHANGED inflight
       ELSE /\ inflight' = inflight \cup {[batch |-> buf, body |-> Body(buf)]}
            /\ UNCHANGED file

\* flush() up to its first await, called with this.buffer = buf.
flush(buf) ==
    /\ flushed' = TRUE
    /\ IF Len(buf) = 0
       THEN /\ buffer' = buf
            /\ UNCHANGED <<inflight, file>>
       ELSE /\ buffer' = <<>>
            /\ IF controlPlaneUrl = ""
               THEN /\ file' = persistBuffer(buf)
                    /\ UNCHANGED inflight
               ELSE /\ inflight' = inflight \cup {[batch |-> buf, body |-> Body(buf)]}
                    /\ UNCHANGED file

enqueue_IgnoresOff(params) ==
    LET event == MakeEvent(Len(enqLog) + 1, params, auditLevel)
        pushed == Append(buffer, event)
    IN  /\ enqLog' = Append(enqLog, [level |-> auditLevel, metadata |-> params.metadata])
        /\ IF Len(pushed) >= batchSize
           THEN flush(pushed)
           ELSE /\ buffer' = pushed
                /\ UNCHANGED <<inflight, file, flushed>>

enqueue_WaitsForTimer(params) ==
    IF auditLevel = "off"
    THEN UNCHANGED <<buffer, inflight, file, flushed, enqLog>>
    ELSE LET event == MakeEvent(Len(enqLog) + 1, params, auditLevel)
         IN  /\ enqLog' = Append(enqLog, [level |-> auditLevel, metadata |-> params.metadata])
             /\ buffer' = Append(buffer, event)
             /\ UNCHANGED <<inflight, file, flushed>>

\* enqueue(params) of the AuditLogger.
enqueue(params) ==
    IF auditLevel = "off"
    THEN UNCHANGED <<buffer, inflight, file, flushed, enqLog>>
    ELSE LET event == MakeEvent(Len(enqLog) + 1, params, auditLevel)
             pushed == Append(buffer, event)
         IN  /\ enqLog' = Append(enqLog, [level |-> auditLevel, metadata |-> params.metadata])
             /\ IF Len(pushed) >= batchSize
                THEN flush(pushed)
                ELSE /\ buffer' = pushed
                     /\ UNCHANGED <<inflight, file, flushed>>

\* What the other hooks of the plugin pass to enqueue.
EnqueueInputs ==
    {[eventType |-> "tool_call_result", toolName |-> "exec", outcome |-> "success",
      metadata |-> "durationMs"]}

Enqueue ==
    /\ Len(loadPersistedBuffer(fileAtCtor)) + Len(enqLog) < MaxEvents
    /\ \E params \in EnqueueInputs : enqueue(params)
    /\ UNCHANGED <<enforcerState, hookCall, auditLevel, controlPlaneUrl, batchSize,
                   flushTimer, delivered, fileAtCtor, flushIntervals, stopCall>>
    /\ UNCHANGED <<cacheVars, heartbeatVars, startupVars, sessionVars, planeVars>>

\* start(): returns when the timer is set, else setInterval.
auditLoggerStart ==
    IF flushTimer
    THEN UNCHANGED <<flushTimer, flushIntervals>>
    ELSE /\ flushTimer' = TRUE
         /\ flushIntervals' = flushIntervals + 1

Start ==
    /\ auditLoggerStart
    /\ UNCHANGED <<enforcerState, hookCall, auditLevel, controlPlaneUrl, batchSize, buffer,
                   inflight, file, delivered, enqLog, fileAtCtor, flushed, stopCall>>
    /\ UNCHANGED <<cacheVars, heartbeatVars, startupVars, sessionVars, planeVars>>

\* The setInterval callback.
TimerFlush ==
    /\ flushIntervals > 0
    /\ flush(buffer)
    /\ UNCHANGED <<enforcerState, hookCall, auditLevel, controlPlaneUrl, batchSize,
                   flushTimer, delivered, enqLog, fileAtCtor, flushIntervals, stopCall>>
    /\ UNCHANGED <<cacheVars, heartbeatVars, startupVars, sessionVars, planeVars>>

\* stop() of the AuditLogger up to its await.
auditLoggerStop ==
    /\ flushTimer' = FALSE
    /\ flushIntervals' = IF flushTimer THEN flushIntervals - 1 ELSE flushIntervals
    /\ flush(buffer)

Stop ==
    /\ auditLoggerStop
    /\ UNCHANGED <<enforcerState, hookCall, auditLevel, controlPlaneUrl, batchSize,
                   delivered, enqLog, fileAtCtor, stopCall>>
    /\ UNCHANGED <<cacheVars, heartbeatVars, startupVars, sessionVars, planeVars>>

UpdateAuditLevel ==
    /\ \E level \in AuditLevels \ {auditLevel} : auditLevel' = level
    /\ UNCHANGED <<enforcerState, hookCall, controlPlaneUrl, batchSize, flushTimer, buffer,
                   inflight, file, delivered, enqLog, fileAtCtor, flushed, flushIntervals,
                   stopCall>>
    /\ UNCHANGED <<cacheVars, heartbeatVars, startupVars, sessionVars, planeVars>>

postOk_PutsBatchBack(post) ==
    /\ inflight' = inflight \ {post}
    /\ delivered' = delivered \cup Range(post.body)
    /\ file' = clearPersistedBuffer
    /\ buffer' = post.batch \o buffer

\* flush() resumed with response.ok.
postOk(post) ==
    /\ inflight' = inflight \ {post}
    /\ delivered' = delivered \cup Range(post.body)
    /\ file' = clearPersistedBuffer
    /\ UNCHANGED buffer

\* flush() resumed with a non-2xx response or a rejected fetch.
postFailed(post) ==
    /\ inflight' = inflight \ {post}
    /\ buffer' = post.batch \o buffer
    /\ file' = persistBuffer(post.batch \o buffer)
    /\ UNCHANGED delivered

\* `await this.flush()` of stop() returns when the flush it started returns.
stopResumed(post) ==
    IF stopCall # None /\ Head(stopCall).awaits = Some(post)
    THEN Some([Head(stopCall) EXCEPT !.resolved = TRUE])
    ELSE stopCall

PostOk ==
    /\ \E post \in inflight : postOk(post) /\ stopCall' = stopResumed(post)
    /\ UNCHANGED <<enforcerState, hookCall, auditLevel, controlPlaneUrl, batchSize,
                   flushTimer, enqLog, fileAtCtor, flushed, flushIntervals>>
    /\ UNCHANGED <<cacheVars, heartbeatVars, startupVars, sessionVars, planeVars>>

PostFailed ==
    /\ \E post \in inflight : postFailed(post) /\ stopCall' = stopResumed(post)
    /\ UNCHANGED <<enforcerState, hookCall, auditLevel, controlPlaneUrl, batchSize,
                   flushTimer, enqLog, fileAtCtor, flushed, flushIntervals>>
    /\ UNCHANGED <<cacheVars, heartbeatVars, startupVars, sessionVars, planeVars>>

\* Events a previous process left in BUFFER_FILE.
OldEvent(id) ==
    [id |-> id, eventType |-> "tool_call_attempt", toolName |-> "read",
     outcome |-> "allowed", metadata |-> Undefined]

InitialFiles ==
    {<<>>, <<JSONStringify(OldEvent(-2)), Malformed, Blank, JSONStringify(OldEvent(-1))>>}

NoEnforcement == [policy |-> None, killSwitchActive |-> FALSE, killSwitchMessage |-> Undefined]

InitLogger(level) ==
    /\ auditLevel = level
    /\ flushTimer = FALSE
    /\ file \in InitialFiles
    /\ buffer = loadPersistedBuffer(file)
    /\ fileAtCtor = file
    /\ flushed = FALSE
    /\ inflight = {}
    /\ delivered = {}
    /\ enqLog = <<>>
    /\ flushIntervals = 0
    /\ stopCall = None

Init ==
    /\ enforcerState = NoEnforcement
    /\ hookCall = None
    /\ controlPlaneUrl \in {"", ControlPlane}
    /\ batchSize \in 1..MaxBatchSize
    /\ \E level \in AuditLevels : InitLogger(level)
    /\ NoCache
    /\ NoHeartbeat
    /\ NoStartup
    /\ NoSession
    /\ NoPlane

Next ==
    \/ Enqueue
    \/ Start
    \/ TimerFlush
    \/ Stop
    \/ UpdateAuditLevel
    \/ PostOk
    \/ PostFailed

Spec == Init /\ [][Next]_vars

(***************************************************************************)
(* The before_tool_call hook applied once to each enforcement state, with  *)
(* the AuditLogger wired as initializeClawGuard wires it.                  *)
(***************************************************************************)

ToolLists == {None} \cup {Some(l) : l \in SeqsUpTo(ListEntries, MaxListLen)}

Policies ==
    {[version |-> 1,
      tools |-> [allow |-> a, deny |-> d],
      killSwitch |-> [active |-> FALSE, message |-> Undefined],
      auditLevel |-> level] : a \in ToolLists, d \in ToolLists, level \in AuditLevels}

EnforcerStates ==
    {[policy |-> p, killSwitchActive |-> k, killSwitchMessage |-> m] :
        p \in {None} \cup {Some(q) : q \in Policies},
        k \in BOOLEAN,
        m \in {Undefined, "Emergency shutdown"}}

\* auditLevel: policy?.auditLevel, and the constructor's default.
PolicyAuditLevel(policy) == IF policy = None THEN "metadata" ELSE Head(policy).auditLevel

\* The handler called with event.toolName = rawName.
beforeToolCall(rawName) ==
    LET call == toolEnforcerHook(enforcerState, rawName)
    IN  /\ hookCall' = Some([toolName |-> rawName, result |-> call.result,
                             enqueued |-> call.enqueued])
        /\ IF call.enqueued = <<>>
           THEN UNCHANGED <<buffer, inflight, file, flushed, enqLog>>
           ELSE enqueue(Head(call.enqueued))

BeforeToolCall ==
    /\ hookCall = None
    /\ \E rawName \in RawToolNames : beforeToolCall(rawName)
    /\ UNCHANGED <<enforcerState, auditLevel, controlPlaneUrl, batchSize, flushTimer,
                   delivered, fileAtCtor, flushIntervals, stopCall>>
    /\ UNCHANGED <<cacheVars, heartbeatVars, startupVars, sessionVars, planeVars>>

InitEnforcer ==
    /\ enforcerState \in EnforcerStates
    /\ hookCall = None
    /\ controlPlaneUrl = ControlPlane
    /\ batchSize \in {1, MaxBatchSize}
    /\ InitLogger(PolicyAuditLevel(enforcerState.policy))
    /\ file = <<>>
    /\ NoCache
    /\ NoHeartbeat
    /\ NoStartup
    /\ NoSession
    /\ NoPlane

NextEnforcer == BeforeToolCall

SpecEnforcer == InitEnforcer /\ [][NextEnforcer]_vars

(***************************************************************************)
(* index.ts: initializeClawGuard from "2. Fetch policy" on, with a valid   *)
(* session.                                                                *)
(***************************************************************************)

\* 4. Set up enforcer state.
EnforcerStateOf(policy) ==
    [policy |-> policy,
     killSwitchActive |-> IF policy = None THEN FALSE ELSE Head(policy).killSwitch.active,
     killSwitchMessage |-> IF policy = None THEN Undefined ELSE Head(policy).killSwitch.message]

\* Steps 6 to 9 and 11: the api.on calls; the LLM hooks only under auditLevel full.
RegisteredHooks(policy) ==
    {"before_tool_call", "after_tool_call", "session_start", "session_end", "gateway_stop"}
        \cup (IF policy # None /\ Head(policy).auditLevel = "full"
              THEN {"llm_input", "llm_output"}
              ELSE {})

\* Steps 4 to 11: enforcerState, new AuditLogger(...) and its start(), the hooks,
\* new KillSwitchManager(...) and its start().
install(policy) ==
    /\ enforcerState' = EnforcerStateOf(policy)
    /\ auditLevel' = PolicyAuditLevel(policy)
    /\ buffer' = loadPersistedBuffer(file)
    /\ fileAtCtor' = file
    /\ flushTimer' = TRUE
    /\ flushIntervals' = flushIntervals + 1
    /\ timer' = TRUE
    /\ heartbeatIntervals' = heartbeatIntervals + 1
    /\ hooks' = hooks \cup RegisteredHooks(policy)
    /\ UNCHANGED <<hookCall, controlPlaneUrl, batchSize, inflight, file, delivered, enqLog,
                   flushed, stopCall, consecutiveFailures, failureThreshold, heartbeats,
                   refreshCalls, lastBeat, skipped, session, sessionFile, llmCall>>

\* Try cache first; on a hit the refresh is started in the background.
ResolvePolicy ==
    /\ startup.pc = "resolve"
    /\ LET policy == loadCachedPolicy(cacheFile, startup.cacheTtl, now)
       IN  /\ cacheOp' = CacheCall("load", startup.cacheTtl, FALSE, policy)
           /\ IF policy = None /\ controlPlaneUrl # ""
              THEN /\ startup' = [startup EXCEPT !.pc = "fetching", !.fetch = "pending"]
                   /\ UNCHANGED <<enforcerState, hookCall, loggerVars, heartbeatVars,
                                  sessionVars>>
              ELSE /\ startup' = [startup EXCEPT !.pc = "ready", !.installed = policy,
                                                 !.background = (policy # None
                                                                 /\ controlPlaneUrl # "")]
                   /\ install(policy)
    /\ UNCHANGED <<cacheFile, now, saved>>
    /\ UNCHANGED planeVars

\* fetchEffectivePolicy resolved: saveCachedPolicy, whose exception lands in the
\* catch of the fetch.
FetchOk ==
    /\ startup.pc = "fetching"
    /\ \E fresh \in ServedPolicies, fault \in SaveFaults :
          /\ cacheFile' \in saveOutcomes(cacheFile, fresh, startup.cacheTtl, now, fault)
          /\ saved' = IF fault = "none"
                      THEN Some([policy |-> fresh, ttlMs |-> startup.cacheTtl,
                                 fetchedAt |-> now])
                      ELSE IF cacheFile' = cacheFile THEN saved ELSE None
          /\ LET policy == IF saveThrows(fault)
                           THEN loadCachedPolicyFallback(cacheFile')
                           ELSE Some(fresh)
             IN  /\ cacheOp' = IF saveThrows(fault)
                               THEN CacheCall("loadFallback", None, FALSE, policy)
                               ELSE CacheCall("save", startup.cacheTtl, FALSE, None)
                 /\ startup' = [startup EXCEPT !.pc = "ready", !.fetch = "ok",
                                               !.fetched = Some(fresh),
                                               !.fallbackConsulted = saveThrows(fault),
                                               !.installed = policy]
                 /\ install(policy)
    /\ UNCHANGED now
    /\ UNCHANGED planeVars

\* fetchEffectivePolicy rejected: fall back to expired cache.
FetchFailed ==
    /\ startup.pc = "fetching"
    /\ LET policy == loadCachedPolicyFallback(cacheFile)
       IN  /\ cacheOp' = CacheCall("loadFallback", None, FALSE, policy)
           /\ startup' = [startup EXCEPT !.pc = "ready", !.fetch = "failed",
                                         !.fallbackConsulted = TRUE,
                                         !.installed = policy]
           /\ install(policy)
    /\ UNCHANGED <<cacheFile, now, saved>>
    /\ UNCHANGED planeVars

\* The three statements a resolved refresh runs: saveCachedPolicy(fresh, cacheTtl),
\* enforcerState.policy = fresh, auditLogger.updateAuditLevel(fresh.auditLevel); an
\* exception of the save skips the other two.
applyFresh(fresh, fault) ==
    /\ cacheFile' \in saveOutcomes(cacheFile, fresh, startup.cacheTtl, now, fault)
    /\ cacheOp' = CacheCall("save", startup.cacheTtl, saveThrows(fault), None)
    /\ saved' = IF fault = "none"
                THEN Some([policy |-> fresh, ttlMs |-> startup.cacheTtl,
                           fetchedAt |-> now])
                ELSE IF cacheFile' = cacheFile THEN saved ELSE None
    /\ enforcerState' = IF saveThrows(fault)
                        THEN enforcerState
                        ELSE [enforcerState EXCEPT !.policy = Some(fresh)]
    /\ auditLevel' = IF saveThrows(fault) THEN auditLevel ELSE fresh.auditLevel

\* The background refresh resolved.
BackgroundRefreshOk ==
    /\ startup.pc = "ready"
    /\ startup.background
    /\ \E fresh \in ServedPolicies, fault \in SaveFaults : applyFresh(fresh, fault)
    /\ startup' = [startup EXCEPT !.background = FALSE]
    /\ UNCHANGED <<now, hookCall, controlPlaneUrl, batchSize, flushTimer, buffer, inflight,
                   file, delivered, enqLog, fileAtCtor, flushed, flushIntervals, stopCall,
                   heartbeatVars>>
    /\ UNCHANGED <<sessionVars, planeVars>>

\* The background refresh rejected: logged.
BackgroundRefreshFailed ==
    /\ startup.pc = "ready"
    /\ startup.background
    /\ startup' = [startup EXCEPT !.background = FALSE]
    /\ UNCHANGED <<enforcerState, hookCall, loggerVars, cacheVars, heartbeatVars>>
    /\ UNCHANGED <<sessionVars, planeVars>>

\* What the process finds in CACHE_FILE when it starts.
CacheFilesAtStart ==
    DamagedFiles \cup
    {CachedPolicy(p, ttlMs, t) : p \in ServedPolicies, ttlMs \in TtlArgs, t \in 0..MaxClock}

InitStartup ==
    /\ enforcerState = NoEnforcement
    /\ hookCall = None
    /\ controlPlaneUrl \in {"", ControlPlane}
    /\ batchSize = MaxBatchSize
    /\ InitLogger("metadata")
    /\ file = <<>>
    /\ NoHeartbeat
    /\ now \in 0..MaxClock
    /\ cacheFile \in {f \in CacheFilesAtStart : f.fetchedAt <= now}
    /\ cacheOp = NoCall
    /\ saved = None
    /\ \E cacheTtl \in TtlArgs :
          startup = Startup("resolve", cacheTtl, cacheFile, "none", None, FALSE, None, FALSE)
    /\ session = Some(SessionTokens(TRUE, FALSE, TRUE))
    /\ sessionFile = session
    /\ hooks = {}
    /\ llmCall = None
    /\ NoPlane

NextStartup ==
    \/ ResolvePolicy
    \/ FetchOk
    \/ FetchFailed
    \/ BackgroundRefreshOk
    \/ BackgroundRefreshFailed

SpecStartup == InitStartup /\ [][NextStartup]_vars

(***************************************************************************)
(* The policy cache on its own: save, load and loadFallback in any order,  *)
(* while time passes and the file is damaged from outside.                 *)
(***************************************************************************)

InitCache ==
    /\ enforcerState = NoEnforcement
    /\ hookCall = None
    /\ controlPlaneUrl = ControlPlane
    /\ batchSize = MaxBatchSize
    /\ InitLogger("metadata")
    /\ file = <<>>
    /\ NoCache
    /\ NoHeartbeat
    /\ NoStartup
    /\ NoSession
    /\ NoPlane

NextCache ==
    \/ SaveCachedPolicy
    \/ LoadCachedPolicy
    \/ LoadCachedPolicyFallback
    \/ Tick
    \/ StorageFault

SpecCache == InitCache /\ [][NextCache]_vars

(***************************************************************************)
(* The running plugin: the KillSwitchManager polling the control plane,    *)
(* start and stop of both timers, and one tool call.                       *)
(***************************************************************************)

InitHeartbeat ==
    /\ \E policy \in {None} \cup {Some(p) : p \in ServedPolicies} :
          /\ enforcerState = EnforcerStateOf(policy)
          /\ InitLogger(PolicyAuditLevel(policy))
    /\ hookCall = None
    /\ controlPlaneUrl \in {"", ControlPlane}
    /\ batchSize = MaxBatchSize
    /\ file = <<>>
    /\ timer = FALSE
    /\ heartbeatIntervals = 0
    /\ consecutiveFailures = 0
    /\ failureThreshold \in 1..MaxThreshold
    /\ heartbeats = 0
    /\ refreshCalls = 0
    /\ lastBeat = None
    /\ skipped = 0
    /\ NoCache
    /\ NoStartup
    /\ NoSession
    /\ NoPlane

NextHeartbeat ==
    \/ KillSwitchStart
    \/ KillSwitchStop
    \/ HeartbeatTick
    \/ HeartbeatOk
    \/ HeartbeatFailed
    \/ BeforeToolCall
    \/ Start
    \/ Stop

SpecHeartbeat == InitHeartbeat /\ [][NextHeartbeat]_vars

(***************************************************************************)
(* Shutdown: the gateway_stop hook of a running plugin, with flushes in    *)
(* flight.                                                                 *)
(***************************************************************************)

\* gateway_stop: killSwitchMgr.stop(); await auditLogger.stop().
GatewayStop ==
    /\ killSwitchStop
    /\ auditLoggerStop
    /\ LET posts == Len(buffer) > 0 /\ controlPlaneUrl # ""
       IN  stopCall' = Some([before |-> Len(enqLog),
                             awaits |-> IF posts
                                        THEN Some([batch |-> buffer, body |-> Body(buffer)])
                                        ELSE None,
                             resolved |-> ~posts])
    /\ UNCHANGED <<enforcerState, hookCall, auditLevel, controlPlaneUrl, batchSize,
                   delivered, enqLog, fileAtCtor>>
    /\ UNCHANGED <<consecutiveFailures, failureThreshold, heartbeats, refreshCalls, lastBeat,
                   skipped>>
    /\ UNCHANGED <<cacheVars, startupVars, sessionVars, planeVars>>

InitShutdown ==
    /\ enforcerState = NoEnforcement
    /\ hookCall = None
    /\ controlPlaneUrl \in {"", ControlPlane}
    /\ batchSize \in 1..MaxBatchSize
    /\ auditLevel = "metadata"
    /\ flushTimer = TRUE
    /\ flushIntervals = 1
    /\ file \in InitialFiles
    /\ buffer = loadPersistedBuffer(file)
    /\ fileAtCtor = file
    /\ flushed = FALSE
    /\ inflight = {}
    /\ delivered = {}
    /\ enqLog = <<>>
    /\ stopCall = None
    /\ timer = TRUE
    /\ heartbeatIntervals = 1
    /\ consecutiveFailures = 0
    /\ failureThreshold = 1
    /\ heartbeats = 0
    /\ refreshCalls = 0
    /\ lastBeat = None
    /\ skipped = 0
    /\ NoCache
    /\ NoStartup
    /\ NoSession
    /\ NoPlane

NextShutdown ==
    \/ Enqueue
    \/ TimerFlush
    \/ GatewayStop
    \/ PostOk
    \/ PostFailed

SpecShutdown == InitShutdown /\ [][NextShutdown]_vars

(***************************************************************************)
(* The hook under a policy that denies one group of the table, called with *)
(* every tool of the table, the aliases and a tool of no group.            *)
(***************************************************************************)

GroupToolNames ==
    UNION {Range(TOOL_GROUPS[g]) : g \in DOMAIN TOOL_GROUPS}
        \cup {"bash", " Bash ", "apply-patch", "custom_tool"}

GroupDenyPolicy(g) == SamplePolicy(1, None, Some(<<g>>), FALSE, Undefined, "metadata")

GroupToolCall ==
    /\ hookCall = None
    /\ \E rawName \in GroupToolNames : beforeToolCall(rawName)
    /\ UNCHANGED <<enforcerState, auditLevel, controlPlaneUrl, batchSize, flushTimer,
                   delivered, fileAtCtor, flushIntervals, stopCall>>
    /\ UNCHANGED <<cacheVars, heartbeatVars, startupVars, sessionVars, planeVars>>

InitGroups ==
    /\ \E g \in DOMAIN TOOL_GROUPS :
          /\ enforcerState = EnforcerStateOf(Some(GroupDenyPolicy(g)))
          /\ InitLogger(PolicyAuditLevel(Some(GroupDenyPolicy(g))))
    /\ hookCall = None
    /\ controlPlaneUrl = ControlPlane
    /\ batchSize \in {1, MaxBatchSize}
    /\ file = <<>>
    /\ NoCache
    /\ NoHeartbeat
    /\ NoStartup
    /\ NoSession
    /\ NoPlane

NextGroups == GroupToolCall

SpecGroups == InitGroups /\ [][NextGroups]_vars

(***************************************************************************)
(* The hook called once with an aliased or a canonical tool name, in       *)
(* several letter cases and with surrounding whitespace.                   *)
(***************************************************************************)

AliasedToolNames ==
    {"bash", " Bash ", "BASH", "apply-patch", " Apply-Patch ", "APPLY-PATCH"}
CanonicalToolNames == {"exec", "EXEC", "apply_patch"}

AliasToolCall ==
    /\ hookCall = None
    /\ \E rawName \in AliasedToolNames \cup CanonicalToolNames : beforeToolCall(rawName)
    /\ UNCHANGED <<enforcerState, auditLevel, controlPlaneUrl, batchSize, flushTimer,
                   delivered, fileAtCtor, flushIntervals, stopCall>>
    /\ UNCHANGED <<cacheVars, heartbeatVars, startupVars, sessionVars, planeVars>>

InitAliases ==
    /\ enforcerState \in EnforcerStates
    /\ hookCall = None
    /\ controlPlaneUrl = ControlPlane
    /\ batchSize = MaxBatchSize
    /\ InitLogger(PolicyAuditLevel(enforcerState.policy))
    /\ file = <<>>
    /\ NoCache
    /\ NoHeartbeat
    /\ NoStartup
    /\ NoSession
    /\ NoPlane

NextAliases == AliasToolCall

SpecAliases == InitAliases /\ [][NextAliases]_vars

(***************************************************************************)
(* clawguard-server: the policies table, the heartbeat route and           *)
(* PolicyService.getEffectivePolicy.                                       *)
(***************************************************************************)

\* A row of the policies table; kill_switch_message null is Undefined.
PolicyRow(version, allow, deny, killSwitch, message, level) ==
    [version |-> version, toolsConfig |-> [allow |-> allow, deny |-> deny],
     killSwitch |-> killSwitch, killSwitchMessage |-> message, auditLevel |-> level]

\* getEffectivePolicy: null without a row, else the row as an OrgPolicy.
getEffectivePolicy(row) ==
    IF row = None THEN None
    ELSE Some(SamplePolicy(Head(row).version, Head(row).toolsConfig.allow,
                           Head(row).toolsConfig.deny, Head(row).killSwitch,
                           Head(row).killSwitchMessage, Head(row).auditLevel))

\* GET /api/v1/heartbeat/:orgId/:userId: the body of the reply.
heartbeatRoute(row) ==
    [policyVersion |-> IF row = None THEN 0 ELSE Head(row).version,
     killSwitch |-> IF row = None THEN FALSE ELSE Head(row).killSwitch,
     killSwitchMessage |-> IF row = None THEN Undefined ELSE Head(row).killSwitchMessage,
     refreshPolicyNow |-> FALSE]

\* The control plane becomes reachable again.
ControlPlaneRecovers ==
    /\ ~serverUp
    /\ serverUp' = TRUE
    /\ UNCHANGED <<policies, mutations, versionLog, fetches, pings>>
    /\ UNCHANGED <<enforcerState, hookCall, loggerVars, cacheVars, heartbeatVars, startupVars,
                   sessionVars>>

\* A heartbeat request answered by the heartbeat route.
HeartbeatAnswered ==
    /\ serverUp
    /\ heartbeatResumed(heartbeatRoute(policies))
    /\ UNCHANGED <<loggerVars, fetches, pings>>

\* A heartbeat request while the control plane is unreachable: fetch rejects.
HeartbeatLost ==
    /\ ~serverUp
    /\ HeartbeatFailed

\* A POST of audit events answered 2xx, and one while the control plane is unreachable.
PostAnswered ==
    /\ serverUp
    /\ PostOk

PostLost ==
    /\ ~serverUp
    /\ PostFailed

(***************************************************************************)
(* The plugin after a startup whose policy fetch failed with no cached     *)
(* policy to fall back to: the audit logger and the heartbeat run, the     *)
(* control plane is unreachable and comes back.                            *)
(***************************************************************************)

PlaneRows ==
    {PolicyRow(2, None, Some(<<"exec">>), k, IF k THEN "Emergency shutdown" ELSE Undefined,
               "metadata") : k \in BOOLEAN}

ValidSession == Some(SessionTokens(TRUE, FALSE, TRUE))

\* The hooks initializeClawGuard registers under a policy whose auditLevel is not full.
EnforcementHooks == RegisteredHooks(None)

InitRetry ==
    /\ enforcerState = EnforcerStateOf(None)
    /\ hookCall = None
    /\ controlPlaneUrl = ControlPlane
    /\ batchSize = MaxBatchSize
    /\ auditLevel = PolicyAuditLevel(None)
    /\ file \in InitialFiles
    /\ buffer = loadPersistedBuffer(file)
    /\ fileAtCtor = file
    /\ flushTimer = TRUE
    /\ flushIntervals = 1
    /\ flushed = FALSE
    /\ inflight = {}
    /\ delivered = {}
    /\ enqLog = <<>>
    /\ stopCall = None
    /\ NoCache
    /\ timer = TRUE
    /\ heartbeatIntervals = 1
    /\ consecutiveFailures = 0
    /\ failureThreshold \in 1..MaxThreshold
    /\ heartbeats = 0
    /\ refreshCalls = 0
    /\ lastBeat = None
    /\ skipped = 0
    /\ startup = Startup("ready", None, MissingFile, "failed", None, TRUE, None, FALSE)
    /\ session = ValidSession
    /\ sessionFile = ValidSession
    /\ hooks = EnforcementHooks
    /\ llmCall = None
    /\ serverUp = FALSE
    /\ policies \in {Some(row) : row \in PlaneRows}
    /\ mutations = <<>>
    /\ versionLog = <<>>
    /\ fetches = {}
    /\ pings = {}

NextRetry ==
    \/ ControlPlaneRecovers
    \/ HeartbeatTick
    \/ HeartbeatAnswered
    \/ HeartbeatLost
    \/ BeforeToolCall
    \/ TimerFlush
    \/ PostAnswered
    \/ PostLost

\* setInterval fires its callback every interval, and every fetch settles.
FairRetry ==
    /\ WF_vars(HeartbeatTick)
    /\ WF_vars(HeartbeatAnswered)
    /\ WF_vars(HeartbeatLost)
    /\ WF_vars(TimerFlush)
    /\ WF_vars(PostAnswered)
    /\ WF_vars(PostLost)

SpecRetry == InitRetry /\ [][NextRetry]_vars /\ FairRetry

(***************************************************************************)
(* clawguard-server: PolicyService.upsertOrgPolicy and setKillSwitch, each *)
(* a read of the row, an await, and a write.                               *)
(***************************************************************************)

\* Arguments of the two mutations.
MutationInputs ==
    {[op |-> "upsertOrgPolicy", deny |-> Some(<<"exec">>), auditLevel |-> Some("full")],
     [op |-> "upsertOrgPolicy", deny |-> None, auditLevel |-> None],
     [op |-> "setKillSwitch", active |-> TRUE, message |-> "Emergency shutdown"],
     [op |-> "setKillSwitch", active |-> FALSE, message |-> Undefined]}

\* Column defaults of the policies table; insert leaves version to its default.
DefaultVersion == 1

insertRow(data) ==
    IF data.op = "upsertOrgPolicy"
    THEN PolicyRow(DefaultVersion, None, data.deny, FALSE, Undefined,
                   IF data.auditLevel = None THEN "metadata" ELSE Head(data.auditLevel))
    ELSE PolicyRow(DefaultVersion, None, None, data.active, data.message, "metadata")

\* update(policies).set({..., version: existing.version + 1}).where(orgId): the
\* columns named are written to the row as it is now, from `existing` as it was read.
updateRow(row, existing, data) ==
    IF data.op = "upsertOrgPolicy"
    THEN [row EXCEPT !.toolsConfig = IF data.deny = None THEN existing.toolsConfig
                                     ELSE [allow |-> None, deny |-> data.deny],
                     !.auditLevel = IF data.auditLevel = None THEN existing.auditLevel
                                    ELSE Head(data.auditLevel),
                     !.version = existing.version + 1]
    ELSE [row EXCEPT !.killSwitch = data.active,
                     !.killSwitchMessage = data.message,
                     !.version = existing.version + 1]

\* A mutation up to the point where `await this.getOrgPolicy(orgId)` has resolved.
BeginMutation ==
    /\ serverUp
    /\ Len(versionLog) + Len(mutations) < MaxMutations
    /\ \E data \in MutationInputs :
          mutations' = Append(mutations, [data |-> data, existing |-> policies])
    /\ UNCHANGED <<serverUp, policies, versionLog, fetches, pings>>
    /\ UNCHANGED <<enforcerState, hookCall, loggerVars, cacheVars, heartbeatVars, startupVars,
                   sessionVars>>

\* The write of a suspended mutation: update when it read a row, else insert, which
\* the unique index on org_id rejects when a row exists by now.
CommitMutation ==
    /\ \E i \in 1..Len(mutations) :
          LET call == mutations[i]
              written == IF call.existing # None
                         THEN Some(updateRow(Head(policies), Head(call.existing), call.data))
                         ELSE IF policies = None THEN Some(insertRow(call.data))
                         ELSE None
          IN  /\ mutations' = SubSeq(mutations, 1, i - 1) \o
                              SubSeq(mutations, i + 1, Len(mutations))
              /\ policies' = IF written = None THEN policies ELSE written
              /\ versionLog' = Append(versionLog,
                                      [op |-> call.data.op,
                                       updated |-> call.existing # None,
                                       version |-> IF written = None THEN None
                                                   ELSE Some(Head(written).version)])
    /\ UNCHANGED <<serverUp, fetches, pings>>
    /\ UNCHANGED <<enforcerState, hookCall, loggerVars, cacheVars, heartbeatVars, startupVars,
                   sessionVars>>

(***************************************************************************)
(* The control plane on its own: mutations of one organisation's policy,   *)
(* processed concurrently.                                                 *)
(***************************************************************************)

RowsAtStart ==
    {None} \cup {Some(PolicyRow(v, None, None, FALSE, Undefined, "metadata")) : v \in 1..2}

InitPlane ==
    /\ enforcerState = NoEnforcement
    /\ hookCall = None
    /\ controlPlaneUrl = ControlPlane
    /\ batchSize = MaxBatchSize
    /\ InitLogger("metadata")
    /\ file = <<>>
    /\ NoCache
    /\ NoHeartbeat
    /\ NoStartup
    /\ NoSession
    /\ serverUp = TRUE
    /\ policies \in RowsAtStart
    /\ mutations = <<>>
    /\ versionLog = <<>>
    /\ fetches = {}
    /\ pings = {}

NextPlane ==
    \/ BeginMutation
    \/ CommitMutation

SpecPlane == InitPlane /\ [][NextPlane]_vars

(***************************************************************************)
(* index.ts: refreshPolicy wired to the KillSwitchManager, and the policy  *)
(* route of the control plane answering fetchEffectivePolicy.              *)
(***************************************************************************)

\* A fetchEffectivePolicy call in flight: response is <<>> until the control plane
\* has handled the request.
Fetch(id, response) == [id |-> id, response |-> response]

BackgroundFetch == Fetch(0, None)

\* refreshPolicy() up to `await fetchEffectivePolicy`; without a URL it returns.
refreshPolicy(data) ==
    IF refreshNeeded(data) /\ controlPlaneUrl # ""
    THEN fetches' = fetches \cup {Fetch(refreshCalls + 1, None)}
    ELSE UNCHANGED fetches

\* heartbeat() resumed with the body data, onPolicyRefreshNeeded calling refreshPolicy.
heartbeatWired(data) ==
    /\ heartbeatResumed(data)
    /\ refreshPolicy(data)
    /\ UNCHANGED <<loggerVars, pings>>

\* A heartbeat answered by the heartbeat route of the repository.
HeartbeatReply ==
    /\ serverUp
    /\ heartbeatWired(heartbeatRoute(policies))

\* A heartbeat answered by a control plane that may set refreshPolicyNow.
HeartbeatReplyAsking ==
    /\ serverUp
    /\ \E r \in BOOLEAN :
          heartbeatWired([heartbeatRoute(policies) EXCEPT !.refreshPolicyNow = r])

\* GET /api/v1/policies/:orgId/effective handled: the reply is built from the row.
ServeFetch ==
    /\ serverUp
    /\ policies # None
    /\ \E f \in fetches :
          /\ f.response = None
          /\ fetches' = (fetches \ {f}) \cup {Fetch(f.id, getEffectivePolicy(policies))}
    /\ UNCHANGED <<serverUp, policies, mutations, versionLog, pings>>
    /\ UNCHANGED <<enforcerState, hookCall, loggerVars, cacheVars, heartbeatVars, startupVars,
                   sessionVars>>

\* fetchEffectivePolicy resolved in refreshPolicy or in the background refresh.
FetchResolved ==
    /\ \E f \in fetches :
          /\ f.response # None
          /\ fetches' = fetches \ {f}
          /\ \E fault \in SaveFaults : applyFresh(Head(f.response), fault)
    /\ UNCHANGED <<now, hookCall, controlPlaneUrl, batchSize, flushTimer, buffer, inflight,
                   file, delivered, enqLog, fileAtCtor, flushed, flushIntervals, stopCall,
                   heartbeatVars, startupVars, sessionVars>>
    /\ UNCHANGED <<serverUp, policies, mutations, versionLog, pings>>

\* fetchEffectivePolicy rejected: the catch logs.
FetchRejected ==
    /\ \E f \in fetches : fetches' = fetches \ {f}
    /\ UNCHANGED <<serverUp, policies, mutations, versionLog, pings>>
    /\ UNCHANGED <<enforcerState, hookCall, loggerVars, cacheVars, heartbeatVars, startupVars,
                   sessionVars>>

(***************************************************************************)
(* The plugin running with the policy of the control plane loaded, while   *)
(* the policy is changed on the control plane and heartbeats are answered  *)
(* by the heartbeat route.                                                 *)
(***************************************************************************)

\* The state initializeClawGuard leaves with `policy` loaded and the timers started.
Running(policy, cacheTtl, background) ==
    /\ enforcerState = EnforcerStateOf(policy)
    /\ hookCall = None
    /\ controlPlaneUrl = ControlPlane
    /\ batchSize = MaxBatchSize
    /\ auditLevel = PolicyAuditLevel(policy)
    /\ file = <<>>
    /\ buffer = <<>>
    /\ fileAtCtor = <<>>
    /\ flushTimer = TRUE
    /\ flushIntervals = 1
    /\ flushed = FALSE
    /\ inflight = {}
    /\ delivered = {}
    /\ enqLog = <<>>
    /\ stopCall = None
    /\ now = 0
    /\ cacheFile = CachedPolicy(Head(policy), cacheTtl, 0)
    /\ cacheOp = NoCall
    /\ saved = Some([policy |-> Head(policy), ttlMs |-> cacheTtl, fetchedAt |-> 0])
    /\ timer = TRUE
    /\ heartbeatIntervals = 1
    /\ consecutiveFailures = 0
    /\ failureThreshold = 1
    /\ heartbeats = 0
    /\ refreshCalls = 0
    /\ lastBeat = None
    /\ skipped = 0
    /\ startup = Startup("ready", cacheTtl, cacheFile, "none", None, FALSE, policy, background)
    /\ session = ValidSession
    /\ sessionFile = ValidSession
    /\ hooks = EnforcementHooks
    /\ llmCall = None

InitVersion ==
    /\ \E row \in RowsAtStart \ {None} :
          /\ policies = row
          /\ Running(getEffectivePolicy(row), None, FALSE)
    /\ serverUp = TRUE
    /\ mutations = <<>>
    /\ versionLog = <<>>
    /\ fetches = {}
    /\ pings = {}

NextVersion ==
    \/ BeginMutation
    \/ CommitMutation
    \/ HeartbeatTick
    \/ HeartbeatReply
    \/ BeforeToolCall

SpecVersion == InitVersion /\ [][NextVersion]_vars

(***************************************************************************)
(* index.ts: initializeClawGuard from "1. Authenticate" on, and the host   *)
(* running a tool call through the hooks registered so far.                *)
(***************************************************************************)

\* What SESSION_FILE can hold when the plugin starts.
StoredSessions ==
    {None} \cup {Some(SessionTokens(a, e, r)) : a \in BOOLEAN, e \in BOOLEAN, r \in BOOLEAN}

\* auth/token-store.ts isSessionValid.
isSessionValid(tokens) ==
    /\ tokens # None
    /\ Head(tokens).accessToken
    /\ ~Head(tokens).expired

authenticated_Always(tokens) == TRUE

\* `if (!session) { ... return; }`
authenticated(tokens) == tokens # None

afterAuthenticate(tokens) == IF authenticated(tokens) THEN "resolve" ELSE "unauthenticated"

\* loadSession, isSessionValid and the branch taken, up to `await refreshSessionToken`.
Authenticate ==
    /\ startup.pc = "auth"
    /\ LET loaded == sessionFile
       IN  IF isSessionValid(loaded)
           THEN /\ session' = loaded
                /\ startup' = [startup EXCEPT !.pc = afterAuthenticate(loaded)]
           ELSE IF loaded # None /\ Head(loaded).refreshToken /\ controlPlaneUrl # ""
           THEN /\ session' = loaded
                /\ startup' = [startup EXCEPT !.pc = "refreshing"]
           ELSE /\ session' = None
                /\ startup' = [startup EXCEPT !.pc = afterAuthenticate(None)]
    /\ UNCHANGED <<sessionFile, hooks, llmCall>>
    /\ UNCHANGED <<enforcerState, hookCall, loggerVars, cacheVars, heartbeatVars, planeVars>>

\* refreshSessionToken resolved, then saveSession, whose exception lands in the catch.
SessionRefreshed ==
    /\ startup.pc = "refreshing"
    /\ \E fault \in SaveFaults :
          LET fresh == Some(SessionTokens(TRUE, FALSE, TRUE))
          IN  IF saveThrows(fault)
              THEN /\ session' = None
                   /\ sessionFile' \in {sessionFile, None}
                   /\ startup' = [startup EXCEPT !.pc = afterAuthenticate(None)]
              ELSE /\ session' = fresh
                   /\ sessionFile' = fresh
                   /\ startup' = [startup EXCEPT !.pc = afterAuthenticate(fresh)]
    /\ UNCHANGED <<hooks, llmCall>>
    /\ UNCHANGED <<enforcerState, hookCall, loggerVars, cacheVars, heartbeatVars, planeVars>>

\* refreshSessionToken rejected: session = null.
SessionRefreshFailed ==
    /\ startup.pc = "refreshing"
    /\ session' = None
    /\ startup' = [startup EXCEPT !.pc = afterAuthenticate(None)]
    /\ UNCHANGED <<sessionFile, hooks, llmCall>>
    /\ UNCHANGED <<enforcerState, hookCall, loggerVars, cacheVars, heartbeatVars, planeVars>>

\* The host runs a tool call: the before_tool_call hooks registered decide, and with
\* none registered the call goes ahead.
HostToolCall ==
    /\ hookCall = None
    /\ \E rawName \in RawToolNames :
          IF "before_tool_call" \in hooks
          THEN beforeToolCall(rawName)
          ELSE /\ hookCall' = Some([toolName |-> rawName, result |-> None, enqueued |-> <<>>])
               /\ UNCHANGED <<buffer, inflight, file, flushed, enqLog>>
    /\ UNCHANGED <<enforcerState, auditLevel, controlPlaneUrl, batchSize, flushTimer,
                   delivered, fileAtCtor, flushIntervals, stopCall>>
    /\ UNCHANGED <<cacheVars, heartbeatVars, startupVars, sessionVars, planeVars>>

InitAuth ==
    /\ enforcerState = NoEnforcement
    /\ hookCall = None
    /\ controlPlaneUrl \in {"", ControlPlane}
    /\ batchSize = MaxBatchSize
    /\ InitLogger("metadata")
    /\ file = <<>>
    /\ NoHeartbeat
    /\ now = 0
    /\ cacheFile \in {MissingFile} \cup {CachedPolicy(p, None, 0) : p \in ServedPolicies}
    /\ cacheOp = NoCall
    /\ saved = None
    /\ startup = Startup("auth", None, cacheFile, "none", None, FALSE, None, FALSE)
    /\ session = None
    /\ sessionFile \in StoredSessions
    /\ hooks = {}
    /\ llmCall = None
    /\ NoPlane

NextAuth ==
    \/ Authenticate
    \/ SessionRefreshed
    \/ SessionRefreshFailed
    \/ ResolvePolicy
    \/ FetchOk
    \/ FetchFailed
    \/ BackgroundRefreshOk
    \/ BackgroundRefreshFailed
    \/ HostToolCall

SpecAuth == InitAuth /\ [][NextAuth]_vars

(***************************************************************************)
(* The plugin started on a cache hit: the background refresh is in flight, *)
(* heartbeats may ask for further refreshes, and the policy is changed on  *)
(* the control plane meanwhile.                                            *)
(***************************************************************************)

InitRefresh ==
    /\ policies = Some(PolicyRow(DefaultVersion, None, None, FALSE, Undefined, "metadata"))
    /\ Running(getEffectivePolicy(policies), None, TRUE)
    /\ serverUp = TRUE
    /\ mutations = <<>>
    /\ versionLog = <<>>
    /\ fetches = {BackgroundFetch}
    /\ pings = {}

NextRefresh ==
    \/ BeginMutation
    \/ CommitMutation
    \/ HeartbeatTick
    \/ HeartbeatReplyAsking
    \/ ServeFetch
    \/ FetchResolved
    \/ FetchRejected

SpecRefresh == InitRefresh /\ [][NextRefresh]_vars

(***************************************************************************)
(* KillSwitchManager.heartbeat with each request followed from the tick    *)
(* that issues it, through the heartbeat route, to its response, while the *)
(* kill switch is changed on the control plane.                            *)
(***************************************************************************)

Ping(id, reply, done) == [id |-> id, reply |-> reply, done |-> done]

\* The setInterval callback issuing a request; start() sets no guard against a
\* request still in flight.
PingSent ==
    /\ heartbeatIntervals > 0
    /\ heartbeatIssued
    /\ heartbeats < MaxInFlight
    /\ Cardinality(pings) < MaxPings
    /\ heartbeats' = heartbeats + 1
    /\ pings' = pings \cup {Ping(Cardinality(pings) + 1, None, FALSE)}
    /\ UNCHANGED <<timer, heartbeatIntervals, consecutiveFailures, failureThreshold,
                   refreshCalls, lastBeat, skipped>>
    /\ UNCHANGED <<serverUp, policies, mutations, versionLog, fetches>>
    /\ UNCHANGED <<enforcerState, hookCall, loggerVars, cacheVars, startupVars, sessionVars>>

\* The heartbeat route handles a request: the reply is built from the row as it is.
PingServed ==
    /\ serverUp
    /\ \E p \in pings :
          /\ p.reply = None
          /\ pings' = (pings \ {p}) \cup {Ping(p.id, Some(heartbeatRoute(policies)), FALSE)}
    /\ UNCHANGED <<serverUp, policies, mutations, versionLog, fetches>>
    /\ UNCHANGED <<enforcerState, hookCall, loggerVars, cacheVars, heartbeatVars, startupVars,
                   sessionVars>>

\* heartbeat() resumed with the reply to one of its requests.
PingAnswered ==
    /\ \E p \in pings :
          /\ p.reply # None
          /\ ~p.done
          /\ heartbeatResumed(Head(p.reply))
          /\ pings' = (pings \ {p}) \cup {Ping(p.id, p.reply, TRUE)}
    /\ UNCHANGED <<loggerVars, fetches>>

InitOverlap ==
    /\ \E row \in RowsAtStart \ {None} :
          /\ policies = row
          /\ Running(getEffectivePolicy(row), None, FALSE)
    /\ serverUp = TRUE
    /\ mutations = <<>>
    /\ versionLog = <<>>
    /\ fetches = {}
    /\ pings = {}

NextOverlap ==
    \/ BeginMutation
    \/ CommitMutation
    \/ PingSent
    \/ PingServed
    \/ PingAnswered

SpecOverlap == InitOverlap /\ [][NextOverlap]_vars

(***************************************************************************)
(* index.ts: startup as above, and the host dispatching an llm_input or    *)
(* llm_output event to the hooks registered for it.                        *)
(***************************************************************************)

LlmHooks == {"llm_input", "llm_output"}

\* What the llm_input and llm_output hooks pass to enqueue.
LlmParams(hook) ==
    [eventType |-> hook, toolName |-> Undefined, outcome |-> "success", metadata |-> "model"]

\* The host dispatches an LLM event: the handler registered under step 9 enqueues, and
\* with none registered nothing runs.
HostLlmEvent ==
    /\ llmCall = None
    /\ \E hook \in LlmHooks :
          /\ llmCall' = Some([hook |-> hook, level |-> auditLevel])
          /\ IF hook \in hooks
             THEN enqueue(LlmParams(hook))
             ELSE UNCHANGED <<buffer, inflight, file, flushed, enqLog>>
    /\ UNCHANGED <<session, sessionFile, hooks>>
    /\ UNCHANGED <<enforcerState, hookCall, auditLevel, controlPlaneUrl, batchSize,
                   flushTimer, delivered, fileAtCtor, flushIntervals, stopCall>>
    /\ UNCHANGED <<cacheVars, heartbeatVars, startupVars, planeVars>>

NextLlm ==
    \/ ResolvePolicy
    \/ FetchOk
    \/ FetchFailed
    \/ BackgroundRefreshOk
    \/ BackgroundRefreshFailed
    \/ HostLlmEvent

SpecLlm == InitStartup /\ [][NextLlm]_vars

(***************************************************************************)
(* Properties.                                                             *)
(***************************************************************************)

TheCall == Head(hookCall)
Blocked(call) == call.result # None /\ Head(call.result).block
Reason(call) == Head(call.enqueued).metadata

DenySet(policy) ==
    IF Head(policy).tools.deny = None THEN {} ELSE expandGroups(Head(Head(policy).tools.deny))
AllowSet(policy) ==
    IF Head(policy).tools.allow = None THEN {} ELSE expandGroups(Head(Head(policy).tools.allow))
AllowListNonEmpty(policy) ==
    Head(policy).tools.allow # None /\ Head(Head(policy).tools.allow) # <<>>

\* The events with a positive id (built by enqueue) that the logger holds.
InflightEvents == UNION {Range(post.batch) : post \in inflight}
FileLines == {l \in Range(file) : l.kind = "json"}
RecordedEvents ==
    {e \in Range(buffer) \cup InflightEvents \cup {JSONParse(l) : l \in FileLines} : e.id >= 1}

\* C1: with the kill switch active the hook blocks every tool under every policy
\* (none, any allow list, any deny list), the block reason is the kill-switch message,
\* and the enqueue call carries outcome blocked and reason kill_switch.
TheoremC1_KillSwitchBlocksAll ==
    (hookCall # None /\ enforcerState.killSwitchActive) =>
        /\ Blocked(TheCall)
        /\ Head(TheCall.result).blockReason.text =
               (IF enforcerState.killSwitchMessage = Undefined
                THEN DefaultKillSwitchReason ELSE enforcerState.killSwitchMessage)
        /\ Len(TheCall.enqueued) = 1
        /\ Head(TheCall.enqueued).outcome = "blocked"
        /\ Reason(TheCall) = "kill_switch"

\* A call blocked by the kill switch although the allow list holds the tool.
WitnessC1_KillSwitchOverAllowList ==
    /\ hookCall # None
    /\ enforcerState.killSwitchActive
    /\ enforcerState.policy # None
    /\ Head(enforcerState.policy).tools.deny = None
    /\ AllowListNonEmpty(enforcerState.policy)
    /\ normalizeToolName(TheCall.toolName) \in AllowSet(enforcerState.policy)
    /\ Blocked(TheCall)

\* C2: kill switch inactive, policy loaded, the normalized tool name in the expanded
\* deny set and in the expanded allow set: the call is blocked with reason deny_list.
TheoremC2_DenyBeforeAllow ==
    (/\ hookCall # None
     /\ ~enforcerState.killSwitchActive
     /\ enforcerState.policy # None
     /\ normalizeToolName(TheCall.toolName) \in DenySet(enforcerState.policy)
     /\ normalizeToolName(TheCall.toolName) \in AllowSet(enforcerState.policy)) =>
        /\ Blocked(TheCall)
        /\ Reason(TheCall) = "deny_list"

\* An aliased tool on both lists, blocked.
WitnessC2_OnBothLists ==
    /\ hookCall # None
    /\ ~enforcerState.killSwitchActive
    /\ enforcerState.policy # None
    /\ TheCall.toolName = " Bash "
    /\ "exec" \in DenySet(enforcerState.policy) \cap AllowSet(enforcerState.policy)
    /\ Blocked(TheCall)
    /\ Reason(TheCall) = "deny_list"

\* The decision the specification gives for a loaded policy: <<blocked, reason>>.
ReferenceDecision(policy, name) ==
    IF name \in DenySet(policy) THEN <<TRUE, "deny_list">>
    ELSE IF AllowListNonEmpty(policy) /\ name \notin AllowSet(policy)
    THEN <<TRUE, "not_in_allowlist">>
    ELSE <<FALSE, Undefined>>

\* C3: with a policy loaded and the kill switch inactive the hook's decision and
\* audit reason are those of ReferenceDecision.
TheoremC3_MatchesReference ==
    (hookCall # None /\ ~enforcerState.killSwitchActive /\ enforcerState.policy # None) =>
        /\ Len(TheCall.enqueued) = 1
        /\ <<Blocked(TheCall), Reason(TheCall)>> =
               ReferenceDecision(enforcerState.policy, normalizeToolName(TheCall.toolName))
        /\ Head(TheCall.enqueued).outcome = (IF Blocked(TheCall) THEN "blocked" ELSE "allowed")

\* A tool outside a non-empty allow list (a group), blocked as not_in_allowlist.
WitnessC3_NotInAllowList ==
    /\ hookCall # None
    /\ ~enforcerState.killSwitchActive
    /\ enforcerState.policy # None
    /\ Head(enforcerState.policy).tools.allow = Some(<<"group:fs">>)
    /\ TheCall.toolName = "process"
    /\ Blocked(TheCall)
    /\ Reason(TheCall) = "not_in_allowlist"

CounterC9_ExactlyOneEventRecorded ==
    hookCall # None =>
        /\ Cardinality(RecordedEvents) = 1
        /\ \A e \in RecordedEvents :
              /\ e.eventType = "tool_call_attempt"
              /\ (e.outcome = "blocked") <=> Blocked(TheCall)

\* C9 amended: every invocation calls enqueue exactly once, with type
\* tool_call_attempt and outcome blocked exactly when the hook blocks (allowed
\* otherwise); one AuditEvent with that type, tool and outcome is recorded when the
\* audit level is not off, and none when it is off.
TheoremC9_OneEnqueuePerCall ==
    hookCall # None =>
        /\ Len(TheCall.enqueued) = 1
        /\ Head(TheCall.enqueued).eventType = "tool_call_attempt"
        /\ Head(TheCall.enqueued).outcome = (IF Blocked(TheCall) THEN "blocked" ELSE "allowed")
        /\ IF auditLevel = "off"
           THEN RecordedEvents = {}
           ELSE /\ Cardinality(RecordedEvents) = 1
                /\ \A e \in RecordedEvents :
                      /\ e.eventType = "tool_call_attempt"
                      /\ e.toolName = Head(TheCall.enqueued).toolName
                      /\ e.outcome = Head(TheCall.enqueued).outcome

\* A call blocked by the deny list at a level other than off, recorded once as blocked.
WitnessC9_BlockedCallRecordedOnce ==
    /\ hookCall # None
    /\ auditLevel # "off"
    /\ Blocked(TheCall)
    /\ Reason(TheCall) = "deny_list"
    /\ Cardinality(RecordedEvents) = 1
    /\ \A e \in RecordedEvents : e.outcome = "blocked"

HeldIds ==
    Ids(buffer) \cup {e.id : e \in InflightEvents} \cup {l.id : l \in FileLines}
        \cup {j.id : j \in delivered}

\* C5 as stated: every event enqueue accepted is in the buffer, in the batch of a
\* flush in flight, in the persisted file, or was accepted by the control plane.
CounterC5_NoEventDropped ==
    \A id \in 1..Len(enqLog) : id \in HeldIds

InEnqueueOrder(events) ==
    \A i \in 1..Len(events), j \in 1..Len(events) : i < j => events[i].id < events[j].id

\* C6 as stated: when the POST of a flush fails, the buffer then starts with the
\* batch, lists the events in their enqueue order, and the file holds the buffer.
CounterC6_FailedBatchKeepsOrder ==
    [][\A post \in inflight :
          postFailed(post) =>
              /\ IsPrefix(post.batch, buffer')
              /\ InEnqueueOrder(buffer')
              /\ file' = persistBuffer(buffer')]_vars

JsonMetadata(json) == IF "metadata" \in json.keys THEN json.metadata ELSE Undefined

\* The events of this run in the POSTs a step issues.
NewJson == {json \in UNION {Range(post.body) : post \in inflight' \ inflight} : json.id >= 1}

\* C7 as stated: metadata is stripped at ship time: an event transmitted while the
\* audit level is not full carries no metadata, whatever the level at its enqueue was.
CounterC7_StrippedAtShipTime ==
    [][\A json \in NewJson : auditLevel # "full" => "metadata" \notin json.keys]_vars

\* C7 amended: metadata is kept or dropped at enqueue, not at ship time: when the
\* level was changed between the enqueue and the flush, the transmitted event follows
\* the level in force at its enqueue (enqueued under full and transmitted under
\* metadata, it carries its metadata; enqueued under metadata, it carries none).
TheoremC7_MetadataFixedAtEnqueue ==
    [][\A json \in NewJson :
          enqLog'[json.id].level # auditLevel =>
              JsonMetadata(json) =
                  (IF enqLog'[json.id].level = "full"
                   THEN enqLog'[json.id].metadata ELSE Undefined)]_vars

\* Nothing has come back from the control plane and the file was never written, so
\* the batch <<1, 2>> was detached by the threshold flush of event 2's enqueue: event
\* 1, enqueued under full, is on the wire under metadata with its metadata.
WitnessC7_FullEventShippedUnderMetadata ==
    /\ batchSize = 2
    /\ fileAtCtor = <<>>
    /\ file = <<>>
    /\ delivered = {}
    /\ Len(enqLog) >= 2
    /\ enqLog[1].level = "full"
    /\ enqLog[2].level = "metadata"
    /\ \E post \in inflight :
          /\ Len(post.batch) = 2
          /\ post.batch[1].id = 1
          /\ post.batch[2].id = 2
          /\ JsonMetadata(post.body[1]) = "durationMs"

\* C8: under one audit level from enqueue to transmission: at off no event is built
\* and none enters the buffer; at metadata the transmitted event has no metadata key;
\* at full it carries exactly the metadata passed to enqueue.
TheoremC8_LevelGating ==
    [][/\ auditLevel = "off" =>
             /\ enqLog' = enqLog
             /\ Ids(buffer') \subseteq Ids(buffer) \cup {e.id : e \in InflightEvents}
       /\ \A json \in NewJson :
             enqLog'[json.id].level = auditLevel =>
                 /\ auditLevel = "metadata" => "metadata" \notin json.keys
                 /\ auditLevel = "full" => JsonMetadata(json) = enqLog'[json.id].metadata]_vars

\* With batch size 1 and no POST answered yet, event 1 went on the wire in the step
\* that enqueued it, under full, with the metadata passed to enqueue.
WitnessC8_FullKeepsMetadata ==
    /\ batchSize = 1
    /\ fileAtCtor = <<>>
    /\ file = <<>>
    /\ delivered = {}
    /\ Len(enqLog) >= 1
    /\ enqLog[1].level = "full"
    /\ \E post \in inflight :
          /\ Len(post.batch) = 1
          /\ post.batch[1].id = 1
          /\ JsonMetadata(post.body[1]) = enqLog[1].metadata
          /\ enqLog[1].metadata = "durationMs"

\* The events of the lines of a file that parse, in file order.
PersistedEvents(f) ==
    LET parsed == SelectSeq(f, LAMBDA l : l.kind = "json")
    IN  [i \in 1..Len(parsed) |-> JSONParse(parsed[i])]

TheoremC11_CacheRoundTrip ==
    saved # None =>
        /\ (cacheOp.op = "load" /\ cacheOp.ttlMs # None /\ cacheOp.ttlMs = Head(saved).ttlMs) =>
               cacheOp.result =
                   (IF cacheOp.at - Head(saved).fetchedAt <= Head(cacheOp.ttlMs)
                    THEN Some(Head(saved).policy)
                    ELSE None)
        /\ cacheOp.op = "loadFallback" => cacheOp.result = Some(Head(saved).policy)

\* A load exactly T after the save returns the policy, whose killSwitch.message
\* was undefined when it was saved.
WitnessC11_LoadedAtTtl ==
    /\ saved # None
    /\ cacheOp.op = "load"
    /\ cacheOp.ttlMs = Head(saved).ttlMs
    /\ cacheOp.ttlMs # None
    /\ cacheOp.at - Head(saved).fetchedAt = Head(cacheOp.ttlMs)
    /\ cacheOp.result = Some(Head(saved).policy)
    /\ Head(saved).policy.killSwitch.message = Undefined

\* C12 as stated: no operation of the policy cache throws; with a missing, unreadable
\* or corrupt file load and loadFallback return no policy, and a failed mkdir or write
\* in save is swallowed.
CounterC12_NoOperationThrows ==
    /\ ~cacheOp.threw
    /\ (cacheOp.op \in {"load", "loadFallback"} /\ cacheFile \in DamagedFiles) =>
           cacheOp.result = None

\* The heartbeat() that resumes in a step, by its outcome.
BeatResumes(ok) == heartbeats' < heartbeats /\ lastBeat' # None /\ Head(lastBeat').ok = ok

\* C13: after a successful heartbeat response has been processed, killSwitchActive
\* equals the response's killSwitch, killSwitchMessage is the response's message
\* when killSwitch is true and is cleared when it is false, and the
\* consecutive-failure counter is 0.
TheoremC13_SuccessSetsKillSwitch ==
    (lastBeat # None /\ Head(lastBeat).ok) =>
        LET data == Head(lastBeat).response
        IN  /\ enforcerState.killSwitchActive = data.killSwitch
            /\ enforcerState.killSwitchMessage =
                   (IF data.killSwitch THEN data.killSwitchMessage ELSE Undefined)
            /\ consecutiveFailures = 0

\* The policy came with an active kill switch and a message; a response with
\* killSwitch false has cleared both.
WitnessC13_KillSwitchCleared ==
    /\ lastBeat # None
    /\ Head(lastBeat).ok
    /\ ~Head(lastBeat).response.killSwitch
    /\ enforcerState.policy # None
    /\ Head(enforcerState.policy).killSwitch.active
    /\ Head(enforcerState.policy).killSwitch.message # Undefined
    /\ ~enforcerState.killSwitchActive
    /\ enforcerState.killSwitchMessage = Undefined

CounterC15_ThresholdActivatesKillSwitch ==
    /\ [](consecutiveFailures >= failureThreshold => enforcerState.killSwitchActive)
    /\ [][(consecutiveFailures >= failureThreshold /\ hookCall = None /\ hookCall' # None) =>
             Blocked(Head(hookCall'))]_vars

WithinTtl(f, ttlMs, t) ==
    /\ f.kind = "cached"
    /\ t - f.fetchedAt <= (IF ttlMs # None THEN Head(ttlMs) ELSE f.ttlMs)

PolicyIn(f) == IF f.kind = "cached" THEN Some(JSONParsePolicy(Head(f.policy))) ELSE None

\* C17 as stated: the policy placed into EnforcementState at startup is the cached
\* policy when it is within its TTL, without waiting for a fetch; otherwise the policy
\* the live fetch returned, which is then also the content of the cache; the expired
\* cached policy only when the live fetch failed; no policy when none of these
\* is available.  loadFallback is consulted only after a failed live fetch.
CounterC17_ResolutionOrder ==
    startup.pc = "ready" =>
        /\ startup.fallbackConsulted => startup.fetch = "failed"
        /\ IF WithinTtl(startup.fileAtStart, startup.cacheTtl, now)
           THEN /\ startup.installed = PolicyIn(startup.fileAtStart)
                /\ startup.fetch = "none"
           ELSE CASE startup.fetch = "ok" ->
                         /\ startup.installed = startup.fetched
                         /\ startup.background \/ PolicyIn(cacheFile) = startup.fetched
                  [] startup.fetch = "failed" ->
                         startup.installed = PolicyIn(startup.fileAtStart)
                  [] OTHER -> startup.installed = None

\* stop() of the gateway_stop hook resolves in a step.
StopResolves == stopCall' # None /\ Head(stopCall').resolved /\ stopCall' # stopCall

JsonIds(lines) == {l.id : l \in {x \in Range(lines) : x.kind = "json"}}

\* C18 as stated: when stop() resolves the flush timer is cancelled and every event
\* enqueued before stop was called has been POSTed with a 2xx response or is in the
\* persisted buffer file, whatever flushes were in flight when stop was called.
CounterC18_StopLeavesNothingBehind ==
    [][StopResolves =>
          /\ ~flushTimer'
          /\ flushIntervals' = 0
          /\ \A id \in 1..Head(stopCall').before :
                id \in {j.id : j \in delivered'} \cup JsonIds(file')]_vars

\* C19 as stated: start on a started component and stop on a stopped component
\* change nothing, for the AuditLogger (its timer, buffer, requests and file) and
\* for the KillSwitchManager.
CounterC19_RepeatedCallsChangeNothing ==
    [][/\ (flushTimer /\ Start) => UNCHANGED vars
       /\ (~flushTimer /\ Stop) =>
              UNCHANGED <<flushTimer, flushIntervals, buffer, inflight, file>>
       /\ (timer /\ KillSwitchStart) => UNCHANGED vars
       /\ (~timer /\ KillSwitchStop) => UNCHANGED vars]_vars

\* C19 amended: each component has at most one interval registered, exactly when its
\* timer field is set; start on a started component changes nothing; stop leaves no
\* interval; stop on a stopped KillSwitchManager changes nothing, while stop on a
\* stopped AuditLogger leaves the timer as it is and flushes the buffer once more;
\* a heartbeat request is issued only while the KillSwitchManager is started.
TheoremC19_AtMostOneTimer ==
    /\ [](flushIntervals = (IF flushTimer THEN 1 ELSE 0))
    /\ [](heartbeatIntervals = (IF timer THEN 1 ELSE 0))
    /\ [][/\ (flushTimer /\ Start) => UNCHANGED vars
          /\ (timer /\ KillSwitchStart) => UNCHANGED vars
          /\ (~timer /\ KillSwitchStop) => UNCHANGED vars
          /\ (~flushTimer /\ Stop) => UNCHANGED <<flushTimer, flushIntervals>>
          /\ Stop => (~flushTimer' /\ flushIntervals' = 0)
          /\ KillSwitchStop => (~timer' /\ heartbeatIntervals' = 0)
          /\ heartbeats' > heartbeats => (timer /\ heartbeatIntervals = 1)]_vars

\* Both components are stopped and no interval is left, while a heartbeat and the
\* POST of the event that stop() flushed are still in flight.
WitnessC19_StoppedWithRequestsInFlight ==
    /\ ~timer
    /\ heartbeatIntervals = 0
    /\ heartbeats > 0
    /\ ~flushTimer
    /\ flushIntervals = 0
    /\ inflight # {}

\* The group a GroupDenyPolicy denies.
DeniedGroup == Head(Head(enforcerState.policy).tools.deny)[1]

\* C20: under a policy whose deny list is one group name of the table (no allow
\* list, kill switch inactive) a tool call is blocked if and only if its normalized
\* name is a member of that group; a blocked call has reason deny_list.
TheoremC20_GroupDenyBlocksItsMembers ==
    hookCall # None =>
        /\ Blocked(TheCall) <=>
               normalizeToolName(TheCall.toolName) \in Range(TOOL_GROUPS[DeniedGroup])
        /\ Blocked(TheCall) => Reason(TheCall) = "deny_list"

\* group:runtime denied: " Bash " is blocked as exec.
WitnessC20_AliasOfGroupMember ==
    /\ hookCall # None
    /\ DeniedGroup = "group:runtime"
    /\ TheCall.toolName = " Bash "
    /\ Blocked(TheCall)

\* The canonical name the documentation gives for an aliased name.
CanonicalOf(rawName) ==
    IF rawName \in {"bash", " Bash ", "BASH"} THEN "exec" ELSE "apply_patch"

\* C21: in every enforcement state a call with an aliased name (bash, apply-patch, in
\* any letter case, with surrounding whitespace) gets the result a call with the
\* canonical name gets - blocked or allowed alike - and makes the same enqueue call:
\* same tool name, same outcome, same reason.
TheoremC21_AliasDecidesAsCanonical ==
    (hookCall # None /\ TheCall.toolName \in AliasedToolNames) =>
        LET canonical == toolEnforcerHook(enforcerState, CanonicalOf(TheCall.toolName))
        IN  /\ (TheCall.result # None) = (canonical.result # None)
            /\ TheCall.enqueued = canonical.enqueued
            /\ Reason(TheCall) = Head(canonical.enqueued).metadata

\* An alias in capitals with whitespace is blocked through the group that holds its
\* canonical name.
WitnessC21_AliasBlockedByGroup ==
    /\ hookCall # None
    /\ TheCall.toolName = " Apply-Patch "
    /\ ~enforcerState.killSwitchActive
    /\ Blocked(TheCall)
    /\ Reason(TheCall) = "deny_list"
    /\ Head(TheCall.enqueued).toolName = "apply_patch"

KillSwitchCaughtUp == enforcerState.killSwitchActive = Head(policies).killSwitch
BacklogDelivered == buffer = <<>> /\ inflight = {}
PolicyCaughtUp ==
    /\ enforcerState.policy # None
    /\ Head(enforcerState.policy).version = Head(policies).version

\* C22: a failed heartbeat, audit flush and policy fetch are each attempted again at a
\* later scheduled point, so that once the control plane answers again the kill-switch
\* state, the audit backlog and the loaded policy each eventually catch up; the failures
\* raise no error in a tool-call decision.
CounterC22_AllCatchUpAfterRecovery ==
    /\ serverUp ~> KillSwitchCaughtUp
    /\ serverUp ~> BacklogDelivered
    /\ serverUp ~> PolicyCaughtUp

\* The two of the three that the timers do retry.
KillSwitchAndBacklogCatchUp ==
    /\ serverUp ~> KillSwitchCaughtUp
    /\ serverUp ~> BacklogDelivered

\* The versions the mutations wrote, in the order of the writes.
RECURSIVE WrittenVersions(_)
WrittenVersions(log) ==
    IF log = <<>> THEN <<>>
    ELSE Head(log).version \o WrittenVersions(Tail(log))

\* C25: each mutation of an existing policy (upsertOrgPolicy or setKillSwitch) writes a
\* version strictly greater than every version stored before for the organisation, so
\* no two mutations write the same version, also when two are processed concurrently.
CounterC25_VersionStrictlyIncreases ==
    LET written == WrittenVersions(versionLog)
    IN  \A i, j \in 1..Len(written) : i < j => written[i] < written[j]

HeldVersion == IF enforcerState.policy = None THEN 0 ELSE Head(enforcerState.policy).version

\* A step in which heartbeat() resumes with a 2xx reply.
SuccessfulBeat ==
    /\ heartbeats' = heartbeats - 1
    /\ lastBeat' # None
    /\ Head(lastBeat').ok

\* C23: when a heartbeat reply indicates a policy version newer than the one the client
\* holds, the client refreshes its policy at once, so a policy change on the control
\* plane reaches the enforcement state after the next successful heartbeat.
CounterC23_NewerVersionStartsRefresh ==
    [][(SuccessfulBeat /\ Head(lastBeat').response.policyVersion > HeldVersion)
          => (refreshCalls' = refreshCalls + 1 /\ fetches' # fetches)]_vars

\* C24: no single POST of audit events carries more than auditBatchSize events, also
\* after a failed flush has put its events back and after events were reloaded from
\* BUFFER_FILE.
CounterC24_PostWithinBatchSize ==
    \A post \in inflight : Len(post.body) <= batchSize

\* C26: with no control-plane endpoint configured no heartbeat request is ever issued,
\* however many timer ticks occur between start and stop - none is in flight, none has
\* resumed, the refresh callback is never called - and the KillSwitchManager never
\* modifies the enforcement state.
TheoremC26_NoEndpointNoHeartbeat ==
    /\ [](controlPlaneUrl = "" =>
            (heartbeats = 0 /\ lastBeat = None /\ refreshCalls = 0
             /\ consecutiveFailures = 0))
    /\ [][controlPlaneUrl = "" => enforcerState' = enforcerState]_vars

\* The timer ticked as often as the model counts and the manager was stopped again.
WitnessC26_TicksWithoutEndpoint ==
    /\ controlPlaneUrl = ""
    /\ skipped = MaxTicks
    /\ ~timer
    /\ heartbeats = 0

\* C27: without a valid session at startup - none stored, or an invalid one whose
\* refresh is impossible or fails - initializeClawGuard holds no session and the core
\* runs without enforcement: no hook is registered, so no tool call is blocked or
\* audited, and neither the audit logger nor the heartbeat is started.  Enforcement is
\* set up only with a session.
TheoremC27_NoSessionNoEnforcement ==
    /\ session = None =>
          /\ hooks = {}
          /\ ~flushTimer /\ flushIntervals = 0
          /\ ~timer /\ heartbeatIntervals = 0
          /\ enforcerState = NoEnforcement
          /\ hookCall # None => (~Blocked(TheCall) /\ TheCall.enqueued = <<>>)
    /\ startup.pc = "unauthenticated" => session = None
    /\ startup.pc \in {"resolve", "fetching", "ready"} => isSessionValid(session)

\* An expired session with a refresh token and a control plane: the refresh failed,
\* and exec went through unchecked.
WitnessC27_RefreshFailedExecUnchecked ==
    /\ startup.pc = "unauthenticated"
    /\ sessionFile # None
    /\ Head(sessionFile).expired
    /\ Head(sessionFile).refreshToken
    /\ controlPlaneUrl # ""
    /\ hookCall # None
    /\ TheCall.toolName = "exec"
    /\ ~Blocked(TheCall)

\* C28: when a tool call is blocked because the kill switch is active, the audit event
\* recorded for it has event type kill_switch_activated.
CounterC28_KillSwitchEventType ==
    (hookCall # None /\ enforcerState.killSwitchActive /\ Blocked(TheCall)) =>
        \A i \in 1..Len(TheCall.enqueued) :
            TheCall.enqueued[i].eventType = "kill_switch_activated"

\* Every event is held once: not twice in the buffer, not in the buffer and a batch
\* in flight, not in two batches in flight.
HeldOnce ==
    /\ Cardinality(Ids(buffer)) = Len(buffer)
    /\ \A post \in inflight :
          /\ Ids(post.batch) \cap Ids(buffer) = {}
          /\ \A other \in inflight \ {post} : Ids(post.batch) \cap Ids(other.batch) = {}

\* C29: flush detaches the buffer atomically.  Each event is at every time in at most
\* one of the live buffer and the batch of one flush in flight; a flush that starts a
\* POST leaves an empty buffer behind, so later enqueues never join its batch; and the
\* success of a POST removes nothing from the buffer.
TheoremC29_FlushDetachesBuffer ==
    /\ []HeldOnce
    /\ [][\A post \in inflight' \ inflight :
             /\ inflight' = inflight \cup {post}
             /\ buffer' = <<>>
             /\ IsPrefix(buffer, post.batch)]_vars
    /\ [][delivered' # delivered => buffer' = buffer]_vars

\* An event was enqueued after a batch was detached and while its POST is in flight.
WitnessC29_EnqueuedDuringFlight ==
    \E post \in inflight :
        /\ buffer # <<>>
        /\ \A id \in Ids(buffer) : \A sent \in Ids(post.batch) : id > sent
        /\ \E id \in Ids(post.batch) : id >= 1

SavedVersion == IF saved = None THEN 0 ELSE Head(saved).policy.version

\* C30: the version of the policy held in the enforcement state never decreases, nor
\* does the version of the policy in the cache: with two policy fetches in flight whose
\* responses arrive in the reverse order of the server's updates, the older policy does
\* not overwrite the newer one.
CounterC30_VersionNeverDecreases ==
    [][/\ HeldVersion' >= HeldVersion
       /\ (saved # None /\ saved' # None) => SavedVersion' >= SavedVersion]_vars

AnsweredPings == {p \in pings : p.done}
LatestAnswered == CHOOSE p \in AnsweredPings : \A q \in AnsweredPings : q.id <= p.id

\* C31: when two heartbeat requests overlap, the kill-switch state ends as reported by
\* the later-issued heartbeat, whatever order the two responses arrive in: once every
\* request has been answered, the state is the one of the reply to the latest request.
CounterC31_LatestHeartbeatWins ==
    (pings # {} /\ AnsweredPings = pings) =>
        enforcerState.killSwitchActive = Head(LatestAnswered.reply).killSwitch

DeliveredIds == {l.id : l \in delivered}

\* C32: with a control-plane endpoint configured, an event of this process that a failed
\* flush wrote to the persisted buffer file stays in the file until a POST containing it
\* has returned 2xx; a successful flush of a different batch does not remove it.
CounterC32_PersistedUntilDelivered ==
    [][controlPlaneUrl # "" =>
          \A l \in FileLines :
              (l.id >= 1 /\ l.id \notin DeliveredIds') => l \in Range(file')]_vars


\* C33: if the live policy fetch at startup returns a policy, that policy is the one
\* installed in EnforcementState and enforced from then on, even when writing it to the
\* cache file fails (the startup fetch is the one whose returned policy is recorded).
CounterC33_FetchedPolicyInstalled ==
    (startup.pc = "ready" /\ startup.fetch = "ok") => enforcerState.policy = startup.fetched


PolicyKillSwitch(state) == state.policy # None /\ Head(state.policy).killSwitch.active

\* C34: after a policy refresh installs a policy whose killSwitch.active is true,
\* EnforcementState.killSwitchActive is true and every subsequent tool call is blocked,
\* without waiting for the next heartbeat.
CounterC34_RefreshedKillSwitchBlocks ==
    [][/\ (enforcerState'.policy # enforcerState.policy /\ PolicyKillSwitch(enforcerState'))
           => enforcerState'.killSwitchActive
       /\ (hookCall = None /\ hookCall' # None /\ "before_tool_call" \in hooks
              /\ PolicyKillSwitch(enforcerState))
           => Blocked(Head(hookCall'))]_vars


InflightIds == {e.id : e \in InflightEvents}

\* C35: as long as the process is not restarted, no event is delivered twice.  An event
\* of a POST that returned 2xx is from then on neither in the buffer nor in the batch of
\* a flush in flight, and no POST issued later contains it, for every interleaving of
\* enqueues, timer flushes, threshold flushes, stop and failed flushes.
TheoremC35_DeliveredOnce ==
    /\ [](DeliveredIds \cap (Ids(buffer) \cup InflightIds) = {})
    /\ [][\A post \in inflight' \ inflight :
             {json.id : json \in Range(post.body)} \cap DeliveredIds = {}]_vars

\* One event was delivered, another was put back by a failed flush and is in a later
\* POST.
WitnessC35_RetryAfterDelivery ==
    /\ controlPlaneUrl # ""
    /\ \E id \in DeliveredIds : id >= 1
    /\ \E l \in FileLines : l.id >= 1 /\ l.id \in InflightIds


\* C36: whenever EnforcementState.policy is non-null and no refresh step is mid-way, it
\* equals the policy stored in the cache file: every path that installs a policy leaves
\* that same policy in the cache, and a refresh that fails changes neither.
CounterC36_PolicyEqualsCache ==
    (startup.pc = "ready" /\ ~startup.background /\ enforcerState.policy # None) =>
        enforcerState.policy = PolicyIn(cacheFile)


\* C37: an enqueue that brings the buffer length to auditBatchSize or more starts a flush
\* at once, without waiting for the timer, and an enqueue that leaves the buffer below
\* auditBatchSize starts none; the enqueue returns without waiting for that flush: the
\* POST of the whole buffer is in flight (or, without an endpoint, the buffer is
\* persisted) when the enqueue step ends, and nothing has been delivered by it.
TheoremC37_ThresholdFlush ==
    [][enqLog' # enqLog =>
          /\ delivered' = delivered
          /\ IF Len(buffer) + 1 >= batchSize
             THEN /\ buffer' = <<>>
                  /\ flushed'
                  /\ IF controlPlaneUrl = ""
                     THEN /\ inflight' = inflight
                          /\ Len(file') = Len(buffer) + 1
                          /\ file'[Len(file')].id = Len(enqLog')
                     ELSE /\ file' = file
                          /\ \E post \in inflight' \ inflight :
                                /\ inflight' = inflight \cup {post}
                                /\ Len(post.batch) = Len(buffer) + 1
                                /\ IsPrefix(buffer, post.batch)
                                /\ post.batch[Len(post.batch)].id = Len(enqLog')
             ELSE /\ Len(buffer') = Len(buffer) + 1
                  /\ IsPrefix(buffer, buffer')
                  /\ buffer'[Len(buffer')].id = Len(enqLog')
                  /\ inflight' = inflight
                  /\ file' = file
                  /\ flushed' = flushed]_vars

\* With auditBatchSize 2 the second enqueue reached the threshold: both events are in
\* one POST in flight, the timer was never started and nothing is delivered yet.
WitnessC37_ThresholdReached ==
    /\ batchSize = 2
    /\ flushIntervals = 0
    /\ buffer = <<>>
    /\ delivered = {}
    /\ \E post \in inflight :
          /\ Len(post.batch) = 2
          /\ post.batch[2].id = Len(enqLog)
          /\ post.batch[1].id = Len(enqLog) - 1
          /\ Len(enqLog) >= 2


Written(list) == {list[i] : i \in 1..Len(list)}
GroupTools(names) == UNION {Range(TOOL_GROUPS[g]) : g \in names \cap DOMAIN TOOL_GROUPS}
DeniedCall == Blocked(TheCall) /\ Reason(TheCall) = "deny_list"
OffAllowListCall == Blocked(TheCall) /\ Reason(TheCall) = "not_in_allowlist"
ListsDecide ==
    /\ hookCall # None
    /\ ~enforcerState.killSwitchActive
    /\ enforcerState.policy # None

\* What a list matches when its non-group entries are taken as written.
LiteralMatch(list) == GroupTools(Written(list)) \cup (Written(list) \ DOMAIN TOOL_GROUPS)

\* What a list matches when every entry is normalized before the group table is
\* consulted.
NormalizedMatch(list) ==
    LET names == {normalizeToolName(e) : e \in Written(list)}
    IN  GroupTools(names) \cup (names \ DOMAIN TOOL_GROUPS)

\* C38 as stated: a deny-list or allow-list entry that is not a group name passes through
\* literally: it matches exactly the tool call whose normalized name equals the entry as
\* written in the policy, and no other tool.
CounterC38_EntryMatchesAsWritten ==
    ListsDecide =>
        LET tools == Head(enforcerState.policy).tools
            name == normalizeToolName(TheCall.toolName)
        IN  /\ tools.deny # None => (DeniedCall <=> name \in LiteralMatch(Head(tools.deny)))
            /\ (tools.allow # None /\ Head(tools.allow) # <<>> /\ ~DeniedCall) =>
                   (OffAllowListCall <=> name \notin LiteralMatch(Head(tools.allow)))

\* C38 amended: a list entry is normalized like a tool name (trimmed, lower-cased, alias
\* resolved) before it is used; an entry whose normalized form is not a group name
\* matches exactly the tool calls whose normalized name equals the normalized entry.
TheoremC38_EntryMatchesNormalized ==
    ListsDecide =>
        LET tools == Head(enforcerState.policy).tools
            name == normalizeToolName(TheCall.toolName)
        IN  /\ tools.deny # None => (DeniedCall <=> name \in NormalizedMatch(Head(tools.deny)))
            /\ (tools.allow # None /\ Head(tools.allow) # <<>> /\ ~DeniedCall) =>
                   (OffAllowListCall <=> name \notin NormalizedMatch(Head(tools.allow)))

\* The deny list holds the one entry Bash, and a call of exec is blocked by it.
WitnessC38_BashEntryBlocksExec ==
    /\ ListsDecide
    /\ Head(enforcerState.policy).tools.deny = Some(<<"Bash">>)
    /\ TheCall.toolName = "exec"
    /\ DeniedCall


\* C39: llm_input and llm_output events are recorded only while the audit level is full:
\* at every time of the running plugin, also after a policy refresh has changed the audit
\* level, an LLM input or output produces an audit event if and only if the current audit
\* level is full.
CounterC39_LlmEventsIffFull ==
    [][(llmCall = None /\ llmCall' # None /\ startup.pc = "ready") =>
          (enqLog' # enqLog <=> auditLevel = "full")]_vars

====
